---- MODULE Spec2Model ----
(***************************************************************************)
(* Model of the RooVersation conversation viewer.                          *)
(*                                                                         *)
(*   SpecTasks : the task list held by App and its 5 s poll tick, whose    *)
(*               setTasks updater reconciles the fetched list into the     *)
(*               list held (src/src/App.tsx).                              *)
(*   SpecView  : ConversationView's derived views of its messages prop:    *)
(*               the missing-result set, the condensation / truncation     *)
(*               filter, the hidden count and the hybrid timeline          *)
(*               (src/unnamed/part_002).                                   *)
(*   SpecBuilder : ConversationBuilder's draft and the operations that     *)
(*               edit, reorder, duplicate, import and export it            *)
(*               (src/src/components/ConversationBuilder.tsx).             *)
(*   SpecApi   : ConversationBuilder.testAPI, its request and the two      *)
(*               ways it resumes, with the export, the preview and the     *)
(*               edits made while a call is in flight.                     *)
(*   SpecApp   : App's loads and polls: loadTasks, loadConversation, the   *)
(*               file upload, the two setInterval effects, and the         *)
(*               requests in flight whose continuations resume in any      *)
(*               order between the user's actions (src/src/App.tsx).       *)
(*   SpecModes : App's mode toggle and the preview, with the draft being   *)
(*               edited and the loads of viewer mode.                      *)
(*   SpecContent : normalizeContent applied to the values a content        *)
(*               field can hold (src/src/types.ts).                        *)
(*                                                                         *)
(* JavaScript values are modelled as follows.  An absent optional field is *)
(* the value undefined; a string is truthy unless it is empty; an optional *)
(* boolean is FALSE when absent.  Array.prototype.sort is the stable sort  *)
(* ECMAScript 2019 requires.                                               *)
(***************************************************************************)
EXTENDS Integers, Sequences, FiniteSets, TLC

VARIABLES
    tasks,            \* App: const [tasks, setTasks] = useState<Task[]>([])
    prevTasks,        \* the list the last applied setTasks updater was given
    data,             \* the list the last task-list response carried
    pc,               \* the poll tick: "idle", or the path its updater took
    messages,         \* ConversationView: the messages prop
    uiMessages,       \* App: useState<UIMessage[] | null>(null), handed to
                      \* ConversationView as its uiMessages prop
    filterCondensed,  \* ConversationView: useState(true)
    showUiMessages,   \* ConversationView: useState(false)
    builderMessages,      \* App: useState<(Message & { _id: string })[]>([])
    previewConversation,  \* App: useState<Message[] | null>(null)
    isTestingAPI,         \* ConversationBuilder: useState(false)
    apiResponse,          \* ConversationBuilder: useState<string | null>(null)
    apiLogs,              \* ConversationBuilder: useState<APILogEntry[]>([])
    call,                 \* the testAPI call in flight, with what it closed over
    op,                   \* the handler that ran last, with its inputs and
                          \* what it showed, returned or downloaded
    mode,                 \* App: useState<AppMode>(getStoredMode)
    source,               \* App: useState<Source>(getStoredSource)
    selectedTask,         \* App: useState<string | null>(null)
    conversation,         \* App: useState<Message[] | null>(null)
    loadingTasks,         \* App: useState(false)
    loadingConversation,  \* App: useState(false)
    error,                \* App: useState<string | null>(null)
    uploadedFileName,     \* App: useState<string | null>(null)
    requests,             \* the fetches and file reads in flight, each with
                          \* what its continuation closed over
    intervals             \* the setInterval timers set and not yet cleared

vars == <<op, mode, previewConversation, tasks, prevTasks, data, pc,
          messages, uiMessages, filterCondensed, showUiMessages,
          builderMessages, isTestingAPI, apiResponse, apiLogs, call,
          source, selectedTask, conversation, loadingTasks,
          loadingConversation, error, uploadedFileName, requests, intervals>>

taskVars == <<tasks, prevTasks, data, pc>>
viewVars == <<messages, uiMessages, filterCondensed, showUiMessages>>
builderVars == <<builderMessages, previewConversation, isTestingAPI,
                 apiResponse, apiLogs, call, op>>
appVars == <<mode, source, selectedTask, conversation, loadingTasks,
             loadingConversation, error, uploadedFileName, requests, intervals>>

-----------------------------------------------------------------------------
(* JavaScript values *)

undefined == "undefined"
null == "null"

\* ToBoolean of an optional string: undefined and "" are falsy.
Truthy(s) == s # undefined /\ s # ""

Range(s) == {s[i] : i \in 1..Len(s)}

\* All sequences over S of length at most n.
SeqsUpTo(S, n) == UNION {[1..k -> S] : k \in 0..n}

-----------------------------------------------------------------------------
(* Array.prototype.sort: a stable sort.  keys[i] is the sort key of the   *)
(* i-th element; the result lists the indices in ascending key order, and  *)
(* equal keys keep their index order.                                      *)

\* A sort that is not stable: an index goes in front of the indices of equal
\* key.
RECURSIVE InsertUnstable(_, _, _)
InsertUnstable(sorted, i, keys) ==
    IF sorted = <<>> THEN <<i>>
    ELSE IF keys[Head(sorted)] < keys[i]
         THEN <<Head(sorted)>> \o InsertUnstable(Tail(sorted), i, keys)
         ELSE <<i>> \o sorted

\* Insert index i into the sorted index list, behind every index whose key
\* is at most keys[i].
RECURSIVE InsertStable(_, _, _)
InsertStable(sorted, i, keys) ==
    IF sorted = <<>> THEN <<i>>
    ELSE IF keys[Head(sorted)] <= keys[i]
         THEN <<Head(sorted)>> \o InsertStable(Tail(sorted), i, keys)
         ELSE <<i>> \o sorted

RECURSIVE SortedIndices(_, _)
SortedIndices(n, keys) ==
    IF n = 0 THEN <<>>
    ELSE InsertStable(SortedIndices(n - 1, keys), n, keys)

\* arr.sort((a, b) => key(a) - key(b))
StableSort(arr, keys) ==
    LET idx == SortedIndices(Len(arr), keys)
    IN  [k \in 1..Len(arr) |-> arr[idx[k]]]

-----------------------------------------------------------------------------
(* Task list (App.tsx) *)

TaskIds == {"t1", "t2", "t3"}
FirstMessages == {"a", "b"}
Timestamps == {100, 200}
MaxFetched == 2     \* tasks in one response

Task == [id : TaskIds, timestamp : Timestamps, firstMessage : FirstMessages]

DistinctIds(list) ==
    \A i, j \in 1..Len(list) : list[i].id = list[j].id => i = j

\* What GET /api/tasks/{source} can answer: task ids are unique.
FetchedLists == {l \in SeqsUpTo(Task, MaxFetched) : DistinctIds(l)}

\* arr.sort((a, b) => b.timestamp - a.timestamp)
SortByTimestampDesc(arr) ==
    StableSort(arr, [i \in 1..Len(arr) |-> 0 - arr[i].timestamp])

\* data.find(t => t.id === id): the position of the first match, 0 standing
\* for the undefined that find returns when there is none.
Find(list, id) ==
    IF \E i \in 1..Len(list) : list[i].id = id
    THEN CHOOSE i \in 1..Len(list) :
             /\ list[i].id = id
             /\ \A j \in 1..(i - 1) : list[j].id # id
    ELSE 0

existingIds(prev) == {prev[i].id : i \in 1..Len(prev)}

newTasks(prev, fetched) ==
    SelectSeq(fetched, LAMBDA t : t.id \notin existingIds(prev))

\* The no-new-task path without its sort.
updatedTasksUnsorted(prev, fetched) ==
    [i \in 1..Len(prev) |->
        LET updated == Find(fetched, prev[i].id)
        IN  IF updated # 0
            THEN [prev[i] EXCEPT !.timestamp = fetched[updated].timestamp]
            ELSE prev[i]]

\* The no-new-task path taking the whole fetched entry, not its timestamp.
updatedTasksReplaced(prev, fetched) ==
    SortByTimestampDesc(
        [i \in 1..Len(prev) |->
            LET updated == Find(fetched, prev[i].id)
            IN  IF updated # 0 THEN fetched[updated] ELSE prev[i]])

updatedTasks(prev, fetched) ==
    SortByTimestampDesc(
        [i \in 1..Len(prev) |->
            LET updated == Find(fetched, prev[i].id)
            IN  IF updated # 0
                THEN [prev[i] EXCEPT !.timestamp = fetched[updated].timestamp]
                ELSE prev[i]])

\* The new-task path replacing the list held by the fetched one.
mergedTasksFetchedOnly(prev, fetched) ==
    SortByTimestampDesc(fetched)

mergedTasks(prev, fetched) ==
    SortByTimestampDesc(newTasks(prev, fetched) \o prev)

\* The setTasks updater of the poll tick.
reconcile(prev, fetched) ==
    IF Len(newTasks(prev, fetched)) = 0
    THEN updatedTasks(prev, fetched)
    ELSE mergedTasks(prev, fetched)

Idle == [name |-> "idle"]
NoCall == [state |-> "none"]

\* previewConversation: null, or the list handed to setPreviewConversation.
NoPreview == [isNull |-> TRUE]
Preview(msgs) == [isNull |-> FALSE, messages |-> msgs]

InitBuilderVars ==
    /\ builderMessages = <<>>
    /\ previewConversation = NoPreview
    /\ isTestingAPI = FALSE
    /\ apiResponse = null
    /\ apiLogs = <<>>
    /\ call = NoCall
    /\ op = Idle

InitViewIdle ==
    /\ messages = <<>>
    /\ uiMessages = null
    /\ filterCondensed = TRUE
    /\ showUiMessages = FALSE

InitTaskVars ==
    /\ tasks = <<>>
    /\ prevTasks = <<>>
    /\ data = <<>>
    /\ pc = "idle"

\* loadTasks, its response arriving: setTasks(data)
LoadTasks ==
    /\ pc = "idle"
    /\ \E d \in FetchedLists : tasks' = d
    /\ UNCHANGED <<prevTasks, data, pc>>
    /\ UNCHANGED <<viewVars, builderVars, appVars>>

\* One tick of the task-list poll whose response is OK and parses: the
\* updater runs on the list held, along the path the fetched ids decide.
PollTick ==
    /\ pc = "idle"
    /\ \E d \in FetchedLists :
        /\ tasks' = reconcile(tasks, d)
        /\ prevTasks' = tasks
        /\ data' = d
        /\ pc' = IF Len(newTasks(tasks, d)) = 0 THEN "updated" ELSE "merged"
    /\ UNCHANGED <<viewVars, builderVars, appVars>>

\* The tick's callback returns: its locals are gone, the list stays.
TickReturns ==
    /\ pc # "idle"
    /\ prevTasks' = <<>>
    /\ data' = <<>>
    /\ pc' = "idle"
    /\ UNCHANGED tasks
    /\ UNCHANGED <<viewVars, builderVars, appVars>>

Modes == {"viewer", "builder"}
Sources == {"nightly", "production"}

\* No timer is set.
NoInterval == <<>>

\* The task-list poll effect, run with [source, mode]: no timer outside
\* viewer mode, else one whose callback closes over source.
taskPollEffectAnyMode(m, s) == <<s>>

taskPollEffect(m, s) == IF m # "viewer" THEN NoInterval ELSE <<s>>

\* The conversation poll effect, run with [selectedTask, source, mode].
conversationPollEffect(t, s, m) ==
    IF t = null \/ m # "viewer" THEN NoInterval ELSE <<s, t>>

\* The timers left by the effects after a render with this state: a change
\* of a dependency runs the cleanup of the old timer and the effect anew.
Effects(m, s, t) ==
    [tasks |-> taskPollEffect(m, s),
     conversation |-> conversationPollEffect(t, s, m)]

\* App at rest in mode m with nothing loaded and nothing in flight.
InitAppVars(m) ==
    /\ mode = m
    /\ source = "nightly"
    /\ selectedTask = null
    /\ conversation = null
    /\ loadingTasks = FALSE
    /\ loadingConversation = FALSE
    /\ error = null
    /\ uploadedFileName = null
    /\ requests = <<>>
    /\ intervals = Effects(m, "nightly", null)

InitTasks ==
    InitTaskVars /\ InitViewIdle /\ InitBuilderVars /\ InitAppVars("viewer")

NextTasks == LoadTasks \/ PollTick \/ TickReturns

SpecTasks == InitTasks /\ [][NextTasks]_vars

-----------------------------------------------------------------------------
(* ConversationView (part_002): the values its props can take *)

MaxMsgs == 2        \* messages in a conversation
MaxBlocks == 3      \* content blocks in a conversation, all messages together
MaxMarks == 4       \* lifecycle-marker fields set in a conversation
MaxMsgTs == 2       \* message timestamps are 1..MaxMsgTs
MaxUi == 2          \* UI messages

ToolIds == {"", "a1", "a2"}
MarkIds == {"", "g1", "g2"}

Opt(S) == S \cup {undefined}

TextBlock == [type |-> "text", id |-> undefined, tool_use_id |-> undefined]
ToolUse(i) == [type |-> "tool_use", id |-> i, tool_use_id |-> undefined]
ToolResult(i) == [type |-> "tool_result", id |-> undefined, tool_use_id |-> i]

Blocks ==
    {TextBlock} \cup {ToolUse(i) : i \in Opt(ToolIds)}
                \cup {ToolResult(i) : i \in Opt(ToolIds)}

\* content: ContentBlock[] | string
ArrayContent(bs) == [kind |-> "array", blocks |-> bs]
StringContent == [kind |-> "string", text |-> "hello"]

NoMarks ==
    [isSummary |-> FALSE, condenseId |-> undefined, condenseParent |-> undefined,
     isTruncationMarker |-> FALSE, truncationId |-> undefined,
     truncationParent |-> undefined]

Marks ==
    [isSummary : BOOLEAN, condenseId : Opt(MarkIds), condenseParent : Opt(MarkIds),
     isTruncationMarker : BOOLEAN, truncationId : Opt(MarkIds),
     truncationParent : Opt(MarkIds)]

Flag(b) == IF b THEN 1 ELSE 0
Set(v) == IF v = undefined THEN 0 ELSE 1

MarkCount(k) ==
    Flag(k.isSummary) + Set(k.condenseId) + Set(k.condenseParent)
    + Flag(k.isTruncationMarker) + Set(k.truncationId) + Set(k.truncationParent)

Msg(c, t, k) ==
    [role |-> "assistant", content |-> c, ts |-> t,
     isSummary |-> k.isSummary, condenseId |-> k.condenseId,
     condenseParent |-> k.condenseParent,
     isTruncationMarker |-> k.isTruncationMarker,
     truncationId |-> k.truncationId,
     truncationParent |-> k.truncationParent]

MarksOf(m) ==
    [isSummary |-> m.isSummary, condenseId |-> m.condenseId,
     condenseParent |-> m.condenseParent,
     isTruncationMarker |-> m.isTruncationMarker,
     truncationId |-> m.truncationId,
     truncationParent |-> m.truncationParent]

BlockCount(c) == IF c.kind = "array" THEN Len(c.blocks) ELSE 1

RECURSIVE TotalBlocks(_)
TotalBlocks(ms) ==
    IF ms = <<>> THEN 0 ELSE BlockCount(Head(ms).content) + TotalBlocks(Tail(ms))

RECURSIVE TotalMarks(_)
TotalMarks(ms) ==
    IF ms = <<>> THEN 0 ELSE MarkCount(MarksOf(Head(ms))) + TotalMarks(Tail(ms))

(* The conversations enumerated are of three kinds, so that each aspect is *)
(* varied in full without multiplying by the others:                       *)
(*   - content varies: at most MaxBlocks blocks in all, no marker;         *)
(*   - markers vary: at most MaxMarks marker fields set in all, no block;  *)
(*   - timestamps vary: a message is plain, a summary, or condensed by     *)
(*     that summary, and UI messages come with it.                         *)

ContentMessages ==
    [r \in 0..MaxBlocks |->
        {Msg(ArrayContent(bs), 1, NoMarks) : bs \in SeqsUpTo(Blocks, r)}
            \cup (IF r >= 1 THEN {Msg(StringContent, 1, NoMarks)} ELSE {})]

MarkedMessages ==
    [r \in 0..MaxMarks |->
        {Msg(ArrayContent(<<>>), 1, k) : k \in {k \in Marks : MarkCount(k) <= r}}]

TimedShapes ==
    {NoMarks,
     [NoMarks EXCEPT !.isSummary = TRUE, !.condenseId = "g1"],
     [NoMarks EXCEPT !.condenseParent = "g1"]}

TimedMessages ==
    {Msg(ArrayContent(<<>>), t, k) : t \in 1..MaxMsgTs, k \in TimedShapes}

UIMessage == [ts : 1..MaxMsgTs, say : {"text"}]

ContentVaries(ms) ==
    \A i \in 1..Len(ms) : ms[i].ts = 1 /\ MarksOf(ms[i]) = NoMarks

MarkersVary(ms) ==
    \A i \in 1..Len(ms) : ms[i].ts = 1 /\ ms[i].content = ArrayContent(<<>>)

TimestampsVary(ms) == \A i \in 1..Len(ms) : ms[i] \in TimedMessages

\* A conversation of at most one content block, which UI messages come with
\* as well.
SingleBlock(ms) == ContentVaries(ms) /\ TotalBlocks(ms) <= 1

\* The messages a conversation of the model can grow by.
NextMessages(ms, ui) ==
    (IF ui = null /\ ContentVaries(ms)
     THEN ContentMessages[MaxBlocks - TotalBlocks(ms)] ELSE {})
    \cup (IF ui = null /\ MarkersVary(ms)
          THEN MarkedMessages[MaxMarks - TotalMarks(ms)] ELSE {})
    \cup (IF TimestampsVary(ms) THEN TimedMessages ELSE {})

-----------------------------------------------------------------------------
(* ConversationView: the derived views *)

\* A content that is neither a string nor an array: what JSON.parse can
\* give besides.  An object is known by the names of its own properties,
\* none of which is callable.
JsNull == [js |-> "null"]
JsNumber(n) == [js |-> "number", n |-> n]
JsBoolean(b) == [js |-> "boolean", b |-> b]
JsObject(keys) == [js |-> "object", own |-> keys]
OtherContent(v) == [kind |-> "other", value |-> v]
StringOf(s) == [kind |-> "string", text |-> s]

TypeError == "TypeError: Cannot convert object to primitive value"

Digit == <<"0", "1", "2", "3", "4", "5", "6", "7", "8", "9">>

RECURSIVE Decimal(_)
Decimal(n) ==
    IF n < 0 THEN "-" \o Decimal(0 - n)
    ELSE IF n < 10 THEN Digit[n + 1]
    ELSE Decimal(n \div 10) \o Digit[(n % 10) + 1]

\* String(value).  For an object it is OrdinaryToPrimitive with hint
\* string: toString is called if callable, else valueOf, and a TypeError is
\* thrown when neither gives a primitive.  The inherited toString gives
\* "[object Object]"; an own toString property hides it and is not callable,
\* and valueOf, own or inherited, gives no primitive.
String(v) ==
    CASE v.js = "null" -> "null"
      [] v.js = "number" -> Decimal(v.n)
      [] v.js = "boolean" -> (IF v.b THEN "true" ELSE "false")
      [] v.js = "object" ->
            IF "toString" \in v.own THEN TypeError ELSE "[object Object]"

\* normalizeContent: the list it returns, or the error it throws.
normalizeContent(content) ==
    IF content.kind = "string"
    THEN <<[type |-> "text", text |-> content.text,
            id |-> undefined, tool_use_id |-> undefined]>>
    ELSE IF content.kind # "array"
    THEN IF String(content.value) = TypeError
         THEN TypeError
         ELSE <<[type |-> "text", text |-> String(content.value),
                 id |-> undefined, tool_use_id |-> undefined]>>
    ELSE content.blocks

\* The blocks of a conversation in forEach order, each with its 0-based
\* messageIndex and blockIndex.
RECURSIVE BlocksFrom(_, _)
BlocksFrom(msgs, messageIndex) ==
    IF msgs = <<>> THEN <<>>
    ELSE LET bs == normalizeContent(Head(msgs).content)
         IN  [blockIndex \in 1..Len(bs) |->
                 [block |-> bs[blockIndex],
                  position |-> [messageIndex |-> messageIndex,
                                blockIndex |-> blockIndex - 1]]]
             \o BlocksFrom(Tail(msgs), messageIndex + 1)

\* toolResultIds after the pass
toolResultIds(msgs) ==
    LET all == BlocksFrom(msgs, 0)
    IN  {all[i].block.tool_use_id :
            i \in {i \in 1..Len(all) :
                      /\ all[i].block.type = "tool_result"
                      /\ Truthy(all[i].block.tool_use_id)}}

\* toolUsePositions after the pass: Map.set overwrites, so an id maps to the
\* position of its last tool_use block.
RECURSIVE SetPositionsFirstWins(_, _)
SetPositionsFirstWins(all, map) ==
    IF all = <<>> THEN map
    ELSE LET b == Head(all).block
         IN  SetPositionsFirstWins(Tail(all),
                 IF b.type = "tool_use" /\ Truthy(b.id)
                 THEN map @@ (b.id :> Head(all).position)
                 ELSE map)

RECURSIVE SetPositions(_, _)
SetPositions(all, map) ==
    IF all = <<>> THEN map
    ELSE LET b == Head(all).block
         IN  SetPositions(Tail(all),
                 IF b.type = "tool_use" /\ Truthy(b.id)
                 THEN (b.id :> Head(all).position) @@ map
                 ELSE map)

toolUsePositions(msgs) == SetPositions(BlocksFrom(msgs, 0), <<>>)

\* The missing-result set without the exemption of the last message.
missingResultsAnyMessage(msgs) ==
    {toolUseId \in DOMAIN toolUsePositions(msgs) :
        toolUseId \notin toolResultIds(msgs)}

missingResults(msgs) ==
    LET lastMessageIndex == Len(msgs) - 1
        positions == toolUsePositions(msgs)
        results == toolResultIds(msgs)
    IN  {toolUseId \in DOMAIN positions :
            /\ toolUseId \notin results
            /\ positions[toolUseId].messageIndex < lastMessageIndex}

toolUsesMissingResults == missingResults(messages)

\* The hasMissingResult prop of the MessageBlock rendered for a block.
hasMissingResult(block) ==
    IF block.type = "tool_use" /\ Truthy(block.id)
    THEN block.id \in toolUsesMissingResults
    ELSE FALSE

existingSummaryIds ==
    {messages[i].condenseId :
        i \in {i \in 1..Len(messages) :
                  messages[i].isSummary /\ Truthy(messages[i].condenseId)}}

existingTruncationIds ==
    {messages[i].truncationId :
        i \in {i \in 1..Len(messages) :
                  messages[i].isTruncationMarker /\ Truthy(messages[i].truncationId)}}

\* The predicate hiddenCount filters by, and filteredMessages excludes by.
Superseded(m) ==
    \/ Truthy(m.condenseParent) /\ m.condenseParent \in existingSummaryIds
    \/ Truthy(m.truncationParent) /\ m.truncationParent \in existingTruncationIds

\* The hidden count read off the view shown.
hiddenCountOfView ==
    Len(messages)
    - Len(IF filterCondensed
          THEN SelectSeq(messages, LAMBDA m : ~Superseded(m)) ELSE messages)

hiddenCount == Len(SelectSeq(messages, Superseded))

\* The filter reading a message's own condenseId / truncationId where the
\* code reads its condenseParent / truncationParent.
filteredMessagesByOwnId ==
    IF ~filterCondensed THEN messages
    ELSE SelectSeq(messages,
             LAMBDA m :
                 IF Truthy(m.condenseId) /\ m.condenseId \in existingSummaryIds
                 THEN FALSE
                 ELSE IF Truthy(m.truncationId)
                         /\ m.truncationId \in existingTruncationIds
                      THEN FALSE
                      ELSE TRUE)

\* The filter with the truncation check left out.
filteredMessagesCondenseOnly ==
    IF ~filterCondensed THEN messages
    ELSE SelectSeq(messages,
             LAMBDA m : ~(Truthy(m.condenseParent)
                          /\ m.condenseParent \in existingSummaryIds))

filteredMessages ==
    IF ~filterCondensed THEN messages
    ELSE LET summaryIds == existingSummaryIds
             truncationIds == existingTruncationIds
         IN  SelectSeq(messages,
                 LAMBDA m :
                     IF Truthy(m.condenseParent) /\ m.condenseParent \in summaryIds
                     THEN FALSE
                     ELSE IF Truthy(m.truncationParent)
                             /\ m.truncationParent \in truncationIds
                          THEN FALSE
                          ELSE TRUE)

\* A HybridItem: index is the place of its message in filteredMessages
\* (type "api") or in uiMessages (type "ui"), standing for the reference
\* the item holds.
ApiItems == [k \in 1..Len(filteredMessages) |->
                [type |-> "api", index |-> k, ts |-> filteredMessages[k].ts]]
UiItems == [k \in 1..Len(uiMessages) |->
                [type |-> "ui", index |-> k, ts |-> uiMessages[k].ts]]

SortByTsAsc(items) == StableSort(items, [i \in 1..Len(items) |-> items[i].ts])

\* The merge pushing the UI messages first.
hybridMessagesUiFirst ==
    IF ~showUiMessages \/ uiMessages = null THEN <<>>
    ELSE SortByTsAsc(UiItems \o ApiItems)

hybridMessages ==
    IF ~showUiMessages \/ uiMessages = null THEN <<>>
    ELSE SortByTsAsc(ApiItems \o UiItems)

\* The merged timeline whenever the UI switch is on, stream or no stream.
renderedListOfSwitch ==
    IF showUiMessages
    THEN [list |-> "hybrid", items |-> SortByTsAsc(ApiItems)]
    ELSE [list |-> "api", items |-> filteredMessages]

\* The list the scroll area maps over: the merged timeline when the switch
\* is on and the merge is not empty, the filtered messages otherwise.
renderedList ==
    IF showUiMessages /\ Len(hybridMessages) > 0
    THEN [list |-> "hybrid", items |-> hybridMessages]
    ELSE [list |-> "api", items |-> filteredMessages]

\* The UI switch, rendered when there are UI messages.
ToggleShowUiMessages ==
    /\ uiMessages # null
    /\ Len(uiMessages) > 0
    /\ showUiMessages' = ~showUiMessages
    /\ UNCHANGED <<messages, uiMessages, filterCondensed>>
    /\ UNCHANGED <<taskVars, builderVars, appVars>>

\* The "N Hidden" / "Hide N" button, rendered outside hybrid display when
\* the hidden count is positive.
ToggleFilterCondensed ==
    /\ ~showUiMessages
    /\ hiddenCount > 0
    /\ filterCondensed' = ~filterCondensed
    /\ UNCHANGED <<messages, uiMessages, showUiMessages>>
    /\ UNCHANGED <<taskVars, builderVars, appVars>>

\* The conversation poll delivers the conversation grown by a message:
\* App's setConversation(data.apiConversation) changes the messages prop.
ReceiveMessage ==
    /\ Len(messages) < MaxMsgs
    /\ \E m \in NextMessages(messages, uiMessages) :
           messages' = Append(messages, m)
    /\ UNCHANGED <<uiMessages, filterCondensed, showUiMessages>>
    /\ UNCHANGED <<taskVars, builderVars, appVars>>

\* The conversation poll delivers the UI stream grown by a message:
\* App's setUiMessages(data.uiMessages) changes the uiMessages prop.
ReceiveUiMessage ==
    /\ TimestampsVary(messages) \/ SingleBlock(messages)
    /\ IF uiMessages = null THEN TRUE ELSE Len(uiMessages) < MaxUi
    /\ \E u \in UIMessage :
           uiMessages' = IF uiMessages = null THEN <<u>> ELSE Append(uiMessages, u)
    /\ UNCHANGED <<messages, filterCondensed, showUiMessages>>
    /\ UNCHANGED <<taskVars, builderVars, appVars>>

\* The conversation poll delivers a response without a UI stream, or with
\* an empty one, to a view that had one: setUiMessages(data.uiMessages).
\* Enumerated for the views that show a message.
ReceiveNoUiMessages ==
    /\ Len(messages) > 0
    /\ uiMessages # null
    /\ Len(uiMessages) > 0
    /\ uiMessages' \in {null, <<>>}
    /\ UNCHANGED <<messages, filterCondensed, showUiMessages>>
    /\ UNCHANGED <<taskVars, builderVars, appVars>>

InitView ==
    InitTaskVars /\ InitViewIdle /\ InitBuilderVars /\ InitAppVars("viewer")

NextView ==
    \/ ReceiveMessage
    \/ ReceiveUiMessage
    \/ ReceiveNoUiMessages
    \/ ToggleShowUiMessages
    \/ ToggleFilterCondensed

SpecView == InitView /\ [][NextView]_vars

-----------------------------------------------------------------------------
(* ConversationBuilder: JavaScript objects                                 *)
(*                                                                         *)
(* An object is the function from its own keys to their values, so that a  *)
(* spread, a rest pattern and a JSON round trip are what they are in the   *)
(* code.  A content block in memory is a cell [obj, val]: val is the block *)
(* and obj tells the object apart from an equal one, being the _id of the  *)
(* message the object was created for.  Indices are 1-based.               *)

Get(o, k) == IF k \in DOMAIN o THEN o[k] ELSE undefined

\* { ...o, [k]: v }
With(o, k, v) == [f \in DOMAIN o \cup {k} |-> IF f = k THEN v ELSE o[f]]

\* ({ [k]: _, ...rest }) => rest
Without(o, k) == [f \in DOMAIN o \ {k} |-> o[f]]

Cell(owner, block) == [obj |-> owner, val |-> block]

\* Fresh objects for the blocks of a parsed JSON array.
Cells(owner, blocks) == [j \in 1..Len(blocks) |-> Cell(owner, blocks[j])]

\* The blocks a content array holds, as JSON.stringify writes them.
Values(content) == [j \in 1..Len(content) |-> content[j].val]

RemoveAt(arr, index) ==
    [k \in 1..(Len(arr) - 1) |-> IF k < index THEN arr[k] ELSE arr[k + 1]]

\* arr.splice(index, 0, item), index being the place the item takes.
InsertAt(arr, index, item) ==
    [k \in 1..(Len(arr) + 1) |->
        IF k < index THEN arr[k] ELSE IF k = index THEN item ELSE arr[k - 1]]

MaxDraft == 3       \* messages in the draft
MaxContent == 2     \* blocks in the content of a draft message
MaxDraftBlocks == 3 \* blocks in the draft when a handler adds some
DateNow == 2        \* Date.now(): later than the ts a file carries

Roles == {"user", "assistant"}
Texts == {"", "hi"}

\* crypto.randomUUID(): an id no message in use carries.
FreshId(used) ==
    CHOOSE i \in 1..(Cardinality(used) + 1) :
        i \notin used /\ \A j \in 1..(i - 1) : j \in used

RECURSIVE FreshIds(_, _)
FreshIds(n, used) ==
    IF n = 0 THEN <<>>
    ELSE <<FreshId(used)>> \o FreshIds(n - 1, used \cup {FreshId(used)})

IdsOf(msgs) == {msgs[i]["_id"] : i \in 1..Len(msgs)}

\* The ids of the list a call in flight holds, and with those of the draft
\* the ids in use.
CallIds == IF call.state = "none" THEN {} ELSE IdsOf(call.messages)

UsedIds == IdsOf(builderMessages) \cup CallIds

\* messages.findIndex((item) => item._id === id): 0 when there is none
findIndex(msgs, id) ==
    IF \E i \in 1..Len(msgs) : msgs[i]["_id"] = id
    THEN CHOOSE i \in 1..Len(msgs) :
             msgs[i]["_id"] = id /\ \A j \in 1..(i - 1) : msgs[j]["_id"] # id
    ELSE 0

\* arrayMove of @dnd-kit/sortable: the element at from is taken out and put
\* back at to.
\* The move that exchanges the two places.
arraySwap(array, from, to) ==
    [array EXCEPT ![from] = array[to], ![to] = array[from]]

arrayMove(array, from, to) == InsertAt(RemoveAt(array, from), to, array[from])

NoOver == 0     \* event.over is null: the drag ended over no message

handleDragEnd(msgs, active, over) ==
    IF over # NoOver /\ active # over
    THEN arrayMove(msgs, findIndex(msgs, active), findIndex(msgs, over))
    ELSE msgs

addMessage(msgs, role, id) ==
    Append(msgs,
           [_id |-> id, role |-> role,
            content |-> <<Cell(id, [type |-> "text", text |-> ""])>>,
            ts |-> DateNow])

\* The update that stores the message as it is given.
updateMessageAsGiven(msgs, index, message) == [msgs EXCEPT ![index] = message]

updateMessage(msgs, index, message) ==
    [msgs EXCEPT ![index] = With(message, "_id", msgs[index]["_id"])]

deleteMessage(msgs, index) == RemoveAt(msgs, index)

\* JSON.parse(JSON.stringify(message)): equal values in objects of their own.
JsonCopy(message, owner) ==
    With(message, "content", Cells(owner, Values(message.content)))

\* The copy that spreads the source and so holds the source's own blocks.
duplicateMessageShallow(msgs, index, id) ==
    LET duplicate == With(With(msgs[index], "_id", id), "ts", DateNow)
    IN  InsertAt(msgs, index + 1, duplicate)

\* The copy that keeps the _id it was spread with.
duplicateMessageKeepingId(msgs, index, id) ==
    LET duplicate == With(JsonCopy(msgs[index], id), "ts", DateNow)
    IN  InsertAt(msgs, index + 1, duplicate)

duplicateMessage(msgs, index, id) ==
    LET duplicate == With(With(JsonCopy(msgs[index], id), "_id", id), "ts", DateNow)
    IN  InsertAt(msgs, index + 1, duplicate)

\* DraggableMessage.addContentBlock: the block a button adds.
newBlock(type) ==
    CASE type = "text" -> [type |-> "text", text |-> ""]
      [] type = "tool_use" ->
             [type |-> "tool_use", id |-> "toolu_a", name |-> "read_file",
              input |-> [path |-> "sample_path"]]
      [] type = "tool_result" ->
             [type |-> "tool_result", tool_use_id |-> "", content |-> "",
              is_error |-> FALSE]
      [] type = "image" ->
             [type |-> "image",
              source |-> [type |-> "base64", media_type |-> "image/png", data |-> ""]]

\* The message each DraggableMessage handler passes to onUpdate.
addContentBlock(message, type) ==
    With(message, "content",
         Append(message.content, Cell(message["_id"], newBlock(type))))

updateContentBlock(message, blockIndex, block) ==
    With(message, "content",
         [message.content EXCEPT ![blockIndex] = Cell(message["_id"], block)])

deleteContentBlock(message, blockIndex) ==
    With(message, "content", RemoveAt(message.content, blockIndex))

\* The blocks MessageBlockEditor passes to onUpdate for a text block:
\* { ...block, text }.
EditedBlocks(block) ==
    IF block.type = "text" THEN {With(block, "text", t) : t \in Texts} ELSE {}

-----------------------------------------------------------------------------
(* ConversationBuilder: files *)

\* The text of a file: not JSON, or JSON whose top-level value is an array
\* of objects or something else.  A message written to JSON has its content
\* as ArrayContent or StringContent and its blocks as plain values.
Malformed == [wellFormed |-> FALSE]
NotAnArray == [wellFormed |-> TRUE, isArray |-> FALSE]
JsonArray(items) == [wellFormed |-> TRUE, isArray |-> TRUE, items |-> items]

\* messages.map(({ _id, ...rest }) => rest)
cleanMessagesKeepingId(msgs) == msgs

cleanMessages(msgs) == [i \in 1..Len(msgs) |-> Without(msgs[i], "_id")]

\* JSON.stringify of a list of messages held in memory.
Stringify(msgs) ==
    JsonArray([i \in 1..Len(msgs) |->
                  With(msgs[i], "content", ArrayContent(Values(msgs[i].content)))])

\* The file exportMessages downloads.
exportMessages(msgs) == Stringify(cleanMessages(msgs))

\* Array.isArray(msg.content) ? msg.content : [{ type: 'text', text: String(msg.content) }]
contentOfImported(msg, id) ==
    IF "content" \in DOMAIN msg
    THEN IF msg.content.kind = "array"
         THEN Cells(id, msg.content.blocks)
         ELSE <<Cell(id, [type |-> "text", text |-> msg.content.text])>>
    ELSE <<Cell(id, [type |-> "text", text |-> "undefined"])>>

\* The import that keeps a file's content as one text block.
withIdsContentAsText(items, ids) ==
    [i \in 1..Len(items) |->
        With(With(items[i], "_id", ids[i]), "content",
             <<Cell(ids[i], [type |-> "text", text |-> "[object Object]"])>>)]

withIds(items, ids) ==
    [i \in 1..Len(items) |->
        With(With(items[i], "_id", ids[i]), "content",
             contentOfImported(items[i], ids[i]))]

\* reader.onload of importMessages: the draft it leaves and the alert it
\* shows (null when it shows none).  The ids it draws are new to the lists
\* that stay in use; the draft it replaces is not one of them.
importMessages(msgs, file, used) ==
    IF ~file.wellFormed
    THEN [messages |-> msgs, alert |-> "Failed to parse JSON file"]
    ELSE IF file.isArray
         THEN [messages |-> withIds(file.items, FreshIds(Len(file.items), used)),
               alert |-> null]
         ELSE [messages |-> msgs, alert |-> null]

\* Files a user picks: the three kinds, with a message that carries a string
\* for its content and a foreign _id, and the file the draft was exported to.
SampleFiles ==
    {Malformed, NotAnArray,
     JsonArray(<<[_id |-> 9, role |-> "user", content |-> StringContent,
                  ts |-> DateNow]>>)}

ImportFiles(msgs) ==
    SampleFiles \cup (IF Len(msgs) > 0 THEN {exportMessages(msgs)} ELSE {})

\* handlePreview hands App the draft without its _ids.
handlePreview(msgs) == cleanMessages(msgs)

\* testTools.generateSampleToolResult
sampleResults ==
    [read_file |-> "File contents here...\nLine 2\nLine 3",
     write_to_file |-> "File written successfully",
     apply_diff |-> "Diff applied successfully",
     execute_command |-> "$ command output\nExecuted successfully",
     list_files |-> "file1.ts\nfile2.ts\nfolder/",
     search_files |-> "Found 3 matches:\nfile1.ts:10: match\nfile2.ts:25: match",
     ask_followup_question |-> "",
     attempt_completion |-> "",
     browser_action |-> "Browser action completed",
     update_todo_list |-> "Todo list updated",
     new_task |-> "New task created",
     switch_mode |-> "Mode switched successfully"]

generateSampleToolResult(toolName, isError) ==
    IF isError THEN "Error: Failed to execute " \o toolName
    ELSE IF toolName \in DOMAIN sampleResults /\ sampleResults[toolName] # ""
    THEN sampleResults[toolName]
    ELSE "Tool executed successfully"

\* toolUseMap: the name of the last tool_use block of an assistant message
\* that carries the id, for the blocks that have both.
RECURSIVE toolUseMap(_)
toolUseMap(blocks) ==
    IF blocks = <<>> THEN <<>>
    ELSE LET block == blocks[Len(blocks)]
             before == toolUseMap(SubSeq(blocks, 1, Len(blocks) - 1))
         IN  IF /\ block.type = "tool_use"
                /\ Truthy(Get(block, "id"))
                /\ Truthy(Get(block, "name"))
             THEN (block.id :> block.name) @@ before
             ELSE before

RECURSIVE BlocksOfRole(_, _)
BlocksOfRole(msgs, role) ==
    IF msgs = <<>> THEN <<>>
    ELSE (IF Head(msgs).role = role THEN Values(Head(msgs).content) ELSE <<>>)
         \o BlocksOfRole(Tail(msgs), role)

\* !block.content || block.content.trim() === ''
isEmpty(block) == Get(block, "content") \in {undefined, "", " "}

\* A tool_result block autoFillToolResults replaces.
Fillable(block) ==
    /\ block.type = "tool_result"
    /\ Truthy(Get(block, "tool_use_id"))
    /\ isEmpty(block)

\* autoFillToolResults: the list it hands to onMessagesChange, or the alert
\* it shows when no block was filled.
autoFillToolResults(msgs) ==
    LET names == toolUseMap(BlocksOfRole(msgs, "assistant"))
        filled(block) ==
            LET toolName == IF block.tool_use_id \in DOMAIN names
                            THEN names[block.tool_use_id] ELSE "unknown"
            IN  With(block, "content",
                     generateSampleToolResult(toolName,
                         IF "is_error" \in DOMAIN block
                         THEN block.is_error ELSE FALSE))
        newContent(msg) ==
            [j \in 1..Len(msg.content) |->
                IF Fillable(msg.content[j].val)
                THEN Cell(msg["_id"], filled(msg.content[j].val))
                ELSE msg.content[j]]
        newMessages ==
            [i \in 1..Len(msgs) |->
                IF msgs[i].role = "user"
                THEN With(msgs[i], "content", newContent(msgs[i]))
                ELSE msgs[i]]
        hasChanges ==
            \E i \in 1..Len(msgs) :
                /\ msgs[i].role = "user"
                /\ \E j \in 1..Len(msgs[i].content) : Fillable(msgs[i].content[j].val)
    IN  IF hasChanges
        THEN [messages |-> newMessages, alert |-> null]
        ELSE [messages |-> msgs,
              alert |-> "No empty tool results to fill. Make sure tool results have a valid tool_use_id reference."]

-----------------------------------------------------------------------------
(* ConversationBuilder.testAPI: the request                                *)

\* value || ''
OrEmpty(o, k) == IF Truthy(Get(o, k)) THEN o[k] ELSE ""

\* value || fallback
OrElse(o, k, fallback) == IF Truthy(Get(o, k)) THEN o[k] ELSE fallback

EmptyObject == <<>>

\* The keys an input object can hold, in the order they were set.
InputKeys == <<"path", "query">>

RECURSIVE Join(_, _)
\* strings.join(separator)
Join(strings, separator) ==
    IF Len(strings) = 0 THEN ""
    ELSE IF Len(strings) = 1 THEN strings[1]
    ELSE strings[1] \o separator \o Join(Tail(strings), separator)

RECURSIVE JsonMembers(_, _)
JsonMembers(o, keys) ==
    IF Len(keys) = 0 THEN <<>>
    ELSE (IF Head(keys) \in DOMAIN o
          THEN <<"\"" \o Head(keys) \o "\":\"" \o o[Head(keys)] \o "\"">>
          ELSE <<>>) \o JsonMembers(o, Tail(keys))

\* JSON.stringify of an object of string values.
JsonStringify(o) == "{" \o Join(JsonMembers(o, InputKeys), ",") \o "}"

\* msg.content.filter(b => b.type === type) and its complement
blocksOfType(content, type) == SelectSeq(Values(content), LAMBDA b : b.type = type)
blocksNotOfType(content, type) == SelectSeq(Values(content), LAMBDA b : b.type # type)

toolMessage(toolResult) ==
    [role |-> "tool",
     tool_call_id |-> OrEmpty(toolResult, "tool_use_id"),
     content |-> OrEmpty(toolResult, "content")]

\* An entry of the content of the external user message.
userContentEntry(block) ==
    IF block.type = "text"
    THEN [type |-> "text", text |-> OrEmpty(block, "text")]
    ELSE IF block.type = "image" /\ "source" \in DOMAIN block
         THEN [type |-> "image_url",
               image_url |->
                   [url |-> "data:" \o OrElse(block.source, "media_type", "image/png")
                                \o ";base64," \o OrEmpty(block.source, "data")]]
         ELSE block

toolCall(block) ==
    [id |-> OrEmpty(block, "id"),
     type |-> "function",
     function |->
         [name |-> OrEmpty(block, "name"),
          arguments |-> JsonStringify(IF "input" \in DOMAIN block
                                      THEN block.input ELSE EmptyObject)]]

\* The external messages of a user message whose text entries are dropped.
userMessagesToolsOnly(msg) ==
    LET toolResultBlocks == blocksOfType(msg.content, "tool_result")
    IN  [j \in 1..Len(toolResultBlocks) |-> toolMessage(toolResultBlocks[j])]

\* The user branch: the external messages of a user message.
userMessages(msg) ==
    LET toolResultBlocks == blocksOfType(msg.content, "tool_result")
        otherBlocks == blocksNotOfType(msg.content, "tool_result")
    IN  [j \in 1..Len(toolResultBlocks) |-> toolMessage(toolResultBlocks[j])]
            \o (IF Len(otherBlocks) > 0
                THEN <<[role |-> "user",
                        content |-> [j \in 1..Len(otherBlocks) |->
                                        userContentEntry(otherBlocks[j])]]>>
                ELSE <<>>)

\* The assistant message whose texts are joined by a blank.
assistantMsgJoinedByBlank(msg) ==
    LET textBlocks == blocksOfType(msg.content, "text")
    IN  [role |-> "assistant",
         content |-> Join([j \in 1..Len(textBlocks) |-> OrEmpty(textBlocks[j], "text")],
                          " ")]

\* The else branch: the external message of an assistant message.
assistantMsg(msg) ==
    LET toolUseBlocks == blocksOfType(msg.content, "tool_use")
        textBlocks == blocksOfType(msg.content, "text")
        base == [role |-> "assistant",
                 content |->
                     IF Len(textBlocks) > 0
                     THEN Join([j \in 1..Len(textBlocks) |->
                                   OrEmpty(textBlocks[j], "text")], "\n")
                     ELSE null]
    IN  IF Len(toolUseBlocks) > 0
        THEN With(base, "tool_calls",
                  [j \in 1..Len(toolUseBlocks) |-> toolCall(toolUseBlocks[j])])
        ELSE base

RECURSIVE openAIMessages(_)
\* for (const msg of messages): the cleanMessages of the request body.
openAIMessages(msgs) ==
    IF Len(msgs) = 0 THEN <<>>
    ELSE (IF msgs[1].role = "user"
          THEN userMessages(msgs[1])
          ELSE <<assistantMsg(msgs[1])>>) \o openAIMessages(Tail(msgs))

-----------------------------------------------------------------------------
(* ConversationBuilder: the handlers of the editor                         *)
(*                                                                         *)
(* Every handler leaves in op what it was called with and what it showed   *)
(* or downloaded; HandlerReturns forgets it.  The builder is on screen     *)
(* while App holds no preview.  Blocks are edited in a message whose       *)
(* neighbours are as addMessage made them, which keeps the drafts few.     *)

RECURSIVE DraftBlocks(_)
DraftBlocks(msgs) ==
    IF Len(msgs) = 0 THEN 0
    ELSE Len(msgs[1].content) + DraftBlocks(RemoveAt(msgs, 1))

\* ConversationBuilder is rendered (builder mode, no preview open) and no
\* handler of its is running.
BuilderIdle ==
    /\ op.name = "idle"
    /\ mode = "builder"
    /\ previewConversation.isNull

\* A call in flight outlives the component that started it: its state
\* setters then act on an unmounted instance.
Unmounted(c) == IF c.state = "none" THEN c ELSE [c EXCEPT !.mounted = FALSE]

AddMessage ==
    /\ BuilderIdle
    /\ Len(builderMessages) < MaxDraft
    /\ DraftBlocks(builderMessages) < MaxDraftBlocks
    /\ \E role \in Roles :
           /\ builderMessages' = addMessage(builderMessages, role, FreshId(UsedIds))
           /\ op' = [name |-> "addMessage"]
    /\ UNCHANGED <<previewConversation, isTestingAPI, apiResponse, apiLogs, call>>
    /\ UNCHANGED <<taskVars, viewVars, appVars>>

\* The role Select of a message: onUpdate(index, { ...message, role }).
UpdateRole ==
    /\ BuilderIdle
    /\ \E index \in 1..Len(builderMessages), role \in Roles :
           /\ role # builderMessages[index].role
           /\ builderMessages' =
                  updateMessage(builderMessages, index,
                                With(builderMessages[index], "role", role))
           /\ op' = [name |-> "updateMessage", index |-> index,
                     via |-> "role"]
    /\ UNCHANGED <<previewConversation, isTestingAPI, apiResponse, apiLogs, call>>
    /\ UNCHANGED <<taskVars, viewVars, appVars>>

Plain(message) == Values(message.content) = <<[type |-> "text", text |-> ""]>>

OthersPlain(msgs, index) ==
    \A i \in 1..Len(msgs) : i # index => Plain(msgs[i])

\* The add-block buttons a message of the role shows.
AddableTypes(role) ==
    {"text", "image"} \cup (IF role = "assistant" THEN {"tool_use"} ELSE {"tool_result"})

AddContentBlock ==
    /\ BuilderIdle
    /\ \E index \in 1..Len(builderMessages) :
           /\ OthersPlain(builderMessages, index)
           /\ Len(builderMessages[index].content) < MaxContent
           /\ DraftBlocks(builderMessages) < MaxDraftBlocks
           /\ \E type \in AddableTypes(builderMessages[index].role) :
                  builderMessages' =
                      updateMessage(builderMessages, index,
                                    addContentBlock(builderMessages[index], type))
           /\ op' = [name |-> "updateMessage", index |-> index,
                     via |-> "addContentBlock"]
    /\ UNCHANGED <<previewConversation, isTestingAPI, apiResponse, apiLogs, call>>
    /\ UNCHANGED <<taskVars, viewVars, appVars>>

UpdateContentBlock ==
    /\ BuilderIdle
    /\ \E index \in 1..Len(builderMessages) :
           /\ OthersPlain(builderMessages, index)
           /\ \E blockIndex \in 1..Len(builderMessages[index].content) :
                  \E block \in EditedBlocks(builderMessages[index].content[blockIndex].val) :
                      /\ block # builderMessages[index].content[blockIndex].val
                      /\ builderMessages' =
                             updateMessage(builderMessages, index,
                                 updateContentBlock(builderMessages[index],
                                                    blockIndex, block))
           /\ op' = [name |-> "updateMessage", index |-> index,
                     via |-> "updateContentBlock"]
    /\ UNCHANGED <<previewConversation, isTestingAPI, apiResponse, apiLogs, call>>
    /\ UNCHANGED <<taskVars, viewVars, appVars>>

DeleteContentBlock ==
    /\ BuilderIdle
    /\ \E index \in 1..Len(builderMessages) :
           /\ OthersPlain(builderMessages, index)
           /\ \E blockIndex \in 1..Len(builderMessages[index].content) :
                  builderMessages' =
                      updateMessage(builderMessages, index,
                          deleteContentBlock(builderMessages[index], blockIndex))
           /\ op' = [name |-> "updateMessage", index |-> index,
                     via |-> "deleteContentBlock"]
    /\ UNCHANGED <<previewConversation, isTestingAPI, apiResponse, apiLogs, call>>
    /\ UNCHANGED <<taskVars, viewVars, appVars>>

DeleteMessage ==
    /\ BuilderIdle
    /\ \E index \in 1..Len(builderMessages) :
           /\ builderMessages' = deleteMessage(builderMessages, index)
           /\ op' = [name |-> "deleteMessage"]
    /\ UNCHANGED <<previewConversation, isTestingAPI, apiResponse, apiLogs, call>>
    /\ UNCHANGED <<taskVars, viewVars, appVars>>

DuplicateMessage ==
    /\ BuilderIdle
    /\ Len(builderMessages) < MaxDraft
    /\ \E index \in 1..Len(builderMessages) :
           /\ DraftBlocks(builderMessages) + Len(builderMessages[index].content)
                  <= MaxDraftBlocks
           /\ builderMessages' =
                  duplicateMessage(builderMessages, index, FreshId(UsedIds))
           /\ op' = [name |-> "duplicateMessage", index |-> index]
    /\ UNCHANGED <<previewConversation, isTestingAPI, apiResponse, apiLogs, call>>
    /\ UNCHANGED <<taskVars, viewVars, appVars>>

\* A drag of a message of the list, dropped on a message or on none.
DragEnd ==
    /\ BuilderIdle
    /\ \E active \in IdsOf(builderMessages),
          over \in IdsOf(builderMessages) \cup {NoOver} :
           /\ builderMessages' = handleDragEnd(builderMessages, active, over)
           /\ op' = [name |-> "handleDragEnd", active |-> active, over |-> over]
    /\ UNCHANGED <<previewConversation, isTestingAPI, apiResponse, apiLogs, call>>
    /\ UNCHANGED <<taskVars, viewVars, appVars>>

\* The Auto-fill button, shown when the draft has messages.
AutoFill ==
    /\ BuilderIdle
    /\ Len(builderMessages) > 0
    /\ LET result == autoFillToolResults(builderMessages)
       IN  /\ builderMessages' = result.messages
           /\ op' = [name |-> "autoFillToolResults", alert |-> result.alert]
    /\ UNCHANGED <<previewConversation, isTestingAPI, apiResponse, apiLogs, call>>
    /\ UNCHANGED <<taskVars, viewVars, appVars>>

ExportMessages ==
    /\ BuilderIdle
    /\ Len(builderMessages) > 0
    /\ op' = [name |-> "exportMessages", download |-> exportMessages(builderMessages)]
    /\ UNCHANGED <<builderMessages, previewConversation, isTestingAPI,
                   apiResponse, apiLogs, call>>
    /\ UNCHANGED <<taskVars, viewVars, appVars>>

ImportMessages ==
    /\ BuilderIdle
    /\ \E file \in ImportFiles(builderMessages) :
           LET result == importMessages(builderMessages, file, CallIds)
           IN  /\ builderMessages' = result.messages
               /\ op' = [name |-> "importMessages", file |-> file, alert |-> result.alert]
    /\ UNCHANGED <<previewConversation, isTestingAPI, apiResponse, apiLogs, call>>
    /\ UNCHANGED <<taskVars, viewVars, appVars>>

\* App renders the preview in place of the builder, whose own state is lost.
HandlePreview ==
    /\ BuilderIdle
    /\ Len(builderMessages) > 0
    /\ previewConversation' = Preview(handlePreview(builderMessages))
    /\ isTestingAPI' = FALSE
    /\ apiResponse' = null
    /\ apiLogs' = <<>>
    /\ call' = Unmounted(call)
    /\ op' = [name |-> "handlePreview"]
    /\ UNCHANGED builderMessages
    /\ UNCHANGED <<taskVars, viewVars, appVars>>

\* Back to Builder: a new ConversationBuilder is mounted on the draft.
ClosePreview ==
    /\ op.name = "idle"
    /\ mode = "builder"
    /\ ~previewConversation.isNull
    /\ previewConversation' = NoPreview
    /\ UNCHANGED <<builderMessages, isTestingAPI, apiResponse, apiLogs, call, op>>
    /\ UNCHANGED <<taskVars, viewVars, appVars>>

HandlerReturns ==
    /\ op.name # "idle"
    /\ op' = Idle
    /\ UNCHANGED <<builderMessages, previewConversation, isTestingAPI,
                   apiResponse, apiLogs, call>>
    /\ UNCHANGED <<taskVars, viewVars, appVars>>

InitBuilder ==
    InitTaskVars /\ InitViewIdle /\ InitBuilderVars /\ InitAppVars("builder")

NextBuilder ==
    \/ AddMessage
    \/ UpdateRole
    \/ AddContentBlock
    \/ UpdateContentBlock
    \/ DeleteContentBlock
    \/ DeleteMessage
    \/ DuplicateMessage
    \/ DragEnd
    \/ ExportMessages
    \/ ImportMessages
    \/ HandlerReturns

SpecBuilder == InitBuilder /\ [][NextBuilder]_vars

-----------------------------------------------------------------------------
(* ConversationBuilder.testAPI                                             *)
(*                                                                         *)
(* testAPI runs to its await in one step and resumes, when the fetch       *)
(* settles, in another: call holds what the closure kept meanwhile, the    *)
(* messages prop it was created with among it.  One call is in flight at   *)
(* a time.  The conversations sent are those of imported files of one      *)
(* message, which covers the blocks a translation meets, fields left out   *)
(* included, sent by a builder that has logged no call, and drafts of new   *)
(* messages, which are edited while a call is in flight.                   *)

MaxLogs == 1    \* entries in the call log when a call is started

ApiBlocks ==
    {[type |-> "text", text |-> "thanks"], [type |-> "text", text |-> "a"],
     [type |-> "text"],
     [type |-> "tool_result", tool_use_id |-> "a1", content |-> "ok"],
     [type |-> "tool_result"],
     [type |-> "tool_result", tool_use_id |-> "a1", content |-> ""],
     [type |-> "image",
      source |-> [type |-> "base64", media_type |-> "image/jpeg", data |-> "AAAA"]],
     [type |-> "image", source |-> [type |-> "base64"]],
     [type |-> "tool_use", id |-> "a1", name |-> "read_file",
      input |-> [path |-> "sample_path"]],
     [type |-> "tool_use"]}

ConversationFiles ==
    {JsonArray(<<[role |-> role, content |-> ArrayContent(blocks), ts |-> 1]>>) :
        role \in Roles,
        blocks \in UNION {[1..n -> ApiBlocks] : n \in 0..MaxContent}}

\* importMessages of a conversation to send, into the empty draft of a
\* builder that has made no call.
ImportConversation ==
    /\ BuilderIdle
    /\ Len(builderMessages) = 0
    /\ call.state = "none" /\ Len(apiLogs) = 0 /\ apiResponse = null
    /\ \E file \in ConversationFiles :
           LET result == importMessages(builderMessages, file, CallIds)
           IN  /\ builderMessages' = result.messages
               /\ op' = [name |-> "importMessages", file |-> file, alert |-> result.alert]
    /\ UNCHANGED <<previewConversation, isTestingAPI, apiResponse, apiLogs, call>>
    /\ UNCHANGED <<taskVars, viewVars, appVars>>

\* A draft of messages as addMessage makes them.
NewMessages(msgs) == \A i \in 1..Len(msgs) : Plain(msgs[i])

\* testAPI up to await fetch(...).
TestApi ==
    /\ BuilderIdle
    /\ ~isTestingAPI
    /\ Len(builderMessages) \in 1..MaxDraft
    /\ NewMessages(builderMessages)
           \/ (Len(builderMessages) = 1 /\ Len(apiLogs) = 0)
    /\ call.state = "none"
    /\ Len(apiLogs) < MaxLogs
    /\ \E apiKey \in {"", "sk-test"} :
           IF ~Truthy(apiKey)
           THEN /\ op' = [name |-> "testAPI", alert |-> "Please enter an API key"]
                /\ UNCHANGED <<isTestingAPI, apiResponse, call>>
           ELSE /\ isTestingAPI' = TRUE
                /\ apiResponse' = null
                /\ call' = [state |-> "sent", messages |-> builderMessages,
                            request |-> openAIMessages(builderMessages),
                            mounted |-> TRUE]
                /\ op' = [name |-> "testAPI", alert |-> null]
    /\ UNCHANGED <<builderMessages, previewConversation, apiLogs>>
    /\ UNCHANGED <<taskVars, viewVars, appVars>>

\* What fetch and response.json() throw: no network, a body that is not JSON.
Failures == {"Failed to fetch", "Unexpected token < in JSON at position 0"}

\* The entry of the call log the catch block makes.
errorEntry(errorMsg) == [response |-> null, error |-> errorMsg]

\* The entry of the call log a response makes.
responseEntry(json) == [response |-> json.body]

\* The state the catch and finally blocks leave in the component that made
\* the call: none when it is no longer mounted.
Caught(c, logs, errorMsg) ==
    IF c.mounted
    THEN [apiLogs |-> <<errorEntry(errorMsg)>> \o logs,
          apiResponse |-> "Error: " \o errorMsg,
          isTestingAPI |-> FALSE]
    ELSE [apiLogs |-> apiLogs, apiResponse |-> apiResponse,
          isTestingAPI |-> isTestingAPI]

\* fetch rejects, or response.json() throws: catch and finally.
TestApiFails ==
    /\ op.name = "idle"
    /\ call.state = "sent"
    /\ \E errorMsg \in Failures :
           LET left == Caught(call, apiLogs, errorMsg)
           IN  /\ apiLogs' = left.apiLogs
               /\ apiResponse' = left.apiResponse
               /\ isTestingAPI' = left.isTestingAPI
               /\ op' = [name |-> "testAPI failed", error |-> errorMsg,
                         mounted |-> call.mounted]
    /\ call' = NoCall
    /\ UNCHANGED <<builderMessages, previewConversation>>
    /\ UNCHANGED <<taskVars, viewVars, appVars>>

\* The bodies the endpoint answers with: an error object, a reply of text,
\* a reply of a tool call, a tool call whose arguments are not JSON, and a
\* reply of nothing.
Responses ==
    {[body |-> "{error}", hasMessage |-> FALSE],
     [body |-> "{text}", hasMessage |-> TRUE, content |-> "ok", tool_calls |-> <<>>],
     [body |-> "{call}", hasMessage |-> TRUE, content |-> "",
      tool_calls |-> <<[id |-> "call_1", name |-> "read_file",
                        arguments |-> "{\"path\":\"sample_path\"}"]>>],
     [body |-> "{bad call}", hasMessage |-> TRUE, content |-> "",
      tool_calls |-> <<[id |-> "call_1", name |-> "read_file", arguments |-> "{"]>>],
     [body |-> "{empty}", hasMessage |-> TRUE, content |-> "", tool_calls |-> <<>>]}

InputObjects == {EmptyObject, [path |-> "sample_path"]}

\* JSON.parse(toolCall.function.arguments || '{}'): the object, or the
\* SyntaxError it throws.
ParseArguments(arguments) ==
    LET text == IF Truthy(arguments) THEN arguments ELSE "{}"
    IN  IF \E o \in InputObjects : JsonStringify(o) = text
        THEN [threw |-> FALSE,
              value |-> CHOOSE o \in InputObjects : JsonStringify(o) = text]
        ELSE [threw |-> TRUE, error |-> "Unexpected end of JSON input"]

\* newContent of a reply, or the error its conversion throws.
newContentOf(message) ==
    LET parsed == [j \in 1..Len(message.tool_calls) |->
                      ParseArguments(message.tool_calls[j].arguments)]
    IN  IF \E j \in 1..Len(parsed) : parsed[j].threw
        THEN [threw |-> TRUE,
              error |-> parsed[CHOOSE j \in 1..Len(parsed) : parsed[j].threw].error]
        ELSE [threw |-> FALSE,
              blocks |->
                  (IF Truthy(message.content)
                   THEN <<[type |-> "text", text |-> message.content]>> ELSE <<>>)
                  \o [j \in 1..Len(parsed) |->
                         [type |-> "tool_use", id |-> message.tool_calls[j].id,
                          name |-> message.tool_calls[j].name,
                          input |-> parsed[j].value]]]

\* response.json() resolves: the entry is logged and the reply, if there is
\* one, is appended to the messages the call was made with.
TestApiResponds ==
    /\ op.name = "idle"
    /\ call.state = "sent"
    /\ \E json \in Responses :
           LET logged == IF call.mounted
                         THEN <<responseEntry(json)>> \o apiLogs ELSE apiLogs
               converted == IF json.hasMessage THEN newContentOf(json)
                            ELSE [threw |-> FALSE, blocks |-> <<>>]
               id == FreshId(UsedIds)
           IN  IF converted.threw
               THEN LET left == Caught(call, logged, converted.error)
                    IN  /\ apiLogs' = left.apiLogs
                        /\ apiResponse' = left.apiResponse
                        /\ isTestingAPI' = left.isTestingAPI
                        /\ op' = [name |-> "testAPI failed", error |-> converted.error,
                                  mounted |-> call.mounted]
                        /\ UNCHANGED builderMessages
               ELSE /\ apiLogs' = logged
                    /\ apiResponse' = IF call.mounted THEN json.body ELSE apiResponse
                    /\ isTestingAPI' = IF call.mounted THEN FALSE ELSE isTestingAPI
                    /\ op' = [name |-> "testAPI done",
                              appended |-> Len(converted.blocks) > 0]
                    /\ builderMessages' =
                           IF Len(converted.blocks) > 0
                           THEN Append(call.messages,
                                       [_id |-> id, role |-> "assistant",
                                        content |-> Cells(id, converted.blocks),
                                        ts |-> DateNow])
                           ELSE builderMessages
    /\ call' = NoCall
    /\ UNCHANGED previewConversation
    /\ UNCHANGED <<taskVars, viewVars, appVars>>

\* A call in flight for the draft as it is: nothing was edited since.
InFlightUnedited ==
    /\ call.state = "sent"
    /\ call.messages = builderMessages
    /\ NewMessages(builderMessages)

\* The first message of a draft, and a message added to a draft of new
\* messages while a call is in flight.
AddMessageToSend ==
    /\ Len(builderMessages) = 0 \/ InFlightUnedited
    /\ AddMessage

\* A message deleted from a draft of new messages while a call is in flight.
DeleteMessageInFlight ==
    /\ InFlightUnedited
    /\ DeleteMessage

\* A message of a draft of new messages duplicated, moved or given the
\* other role, before the first call or while a call is in flight.
EditableToSend ==
    /\ Len(builderMessages) > 0
    /\ IF call.state = "none"
       THEN NewMessages(builderMessages) /\ Len(apiLogs) = 0 /\ apiResponse = null
       ELSE InFlightUnedited

DuplicateMessageToSend == EditableToSend /\ DuplicateMessage

DragEndToSend == EditableToSend /\ DragEnd

UpdateRoleToSend == EditableToSend /\ UpdateRole

\* Auto-fill of an imported conversation before it is sent.
AutoFillToSend ==
    /\ call.state = "none" /\ Len(apiLogs) = 0 /\ apiResponse = null
    /\ ~NewMessages(builderMessages)
    /\ AutoFill

\* The preview of a draft of new messages, and of a conversation before it
\* is sent.
HandlePreviewToSend ==
    /\ NewMessages(builderMessages)
           \/ (call.state = "none" /\ Len(apiLogs) = 0 /\ apiResponse = null)
    /\ HandlePreview

InitApi ==
    InitTaskVars /\ InitViewIdle /\ InitBuilderVars /\ InitAppVars("builder")

NextApi ==
    \/ ImportConversation
    \/ AddMessageToSend
    \/ DeleteMessageInFlight
    \/ DuplicateMessageToSend
    \/ DragEndToSend
    \/ UpdateRoleToSend
    \/ AutoFillToSend
    \/ ExportMessages
    \/ HandlePreviewToSend
    \/ ClosePreview
    \/ TestApi
    \/ TestApiFails
    \/ TestApiResponds
    \/ HandlerReturns

SpecApi == InitApi /\ [][NextApi]_vars

-----------------------------------------------------------------------------
(* App: modes, sources, loads and the two polling loops                    *)
(*                                                                         *)
(* An async function runs up to its await in the handler that calls it and *)
(* resumes when the fetch settles; what it resumes with is what it closed  *)
(* over when it was called.  The state setters of one handler, and of one  *)
(* resumption, are applied together, and the effects whose dependencies    *)
(* changed run before anything else does.                                  *)

MaxRequests == 2    \* fetches and file reads in flight

\* A fetch or file read in flight: the function that awaits it, the source
\* and task id in its URL, the file read, and for loadTasks its caller.
Request(kind, s, t, file, from) ==
    [kind |-> kind, source |-> s, task |-> t, file |-> file, from |-> from]

InFlight(rs) ==
    LET RECURSIVE Sum(_)
        Sum(S) == IF S = {} THEN 0
                  ELSE LET r == CHOOSE r \in S : TRUE
                       IN  rs[r] + Sum(S \ {r})
    IN  Sum(DOMAIN rs)

Issue(rs, r) ==
    IF r \in DOMAIN rs THEN [rs EXCEPT ![r] = @ + 1] ELSE (r :> 1) @@ rs

Settle(rs, r) ==
    IF rs[r] > 1 THEN [rs EXCEPT ![r] = @ - 1]
    ELSE [x \in DOMAIN rs \ {r} |-> rs[x]]

Pending(kind) == {r \in DOMAIN requests : r.kind = kind}

Room == InFlight(requests) < MaxRequests

\* GET /api/tasks/{source}
tasksOnServer(s) ==
    IF s = "nightly"
    THEN <<[id |-> "t1", timestamp |-> 100, firstMessage |-> "a"]>>
    ELSE <<[id |-> "t2", timestamp |-> 200, firstMessage |-> "b"]>>

\* GET /api/task/{source}/{taskId}: data.apiConversation and data.uiMessages
apiConversationOf(t) == <<[role |-> "user", content |-> StringOf(t), ts |-> 1]>>
uiMessagesOf(t) == <<[ts |-> 1, say |-> "text", text |-> t]>>

\* How a fetch settles: an OK response whose body parses; a 404; or a
\* rejected fetch, another status, or a body that does not parse.
Outcomes == {"ok", "notFound", "failed"}

\* The list of a source is there or the fetch fails; a task is found when
\* it is a task of the source.
OutcomesOf(r) ==
    IF r.task = null THEN {"ok", "failed"}
    ELSE IF r.task \in {tasksOnServer(r.source)[i].id :
                           i \in 1..Len(tasksOnServer(r.source))}
    THEN Outcomes ELSE {"notFound", "failed"}

\* The files the user uploads, by name, and how reading one ends.
FileNames == {"array.json", "object.json", "broken.json"}

FileContent(name) ==
    CASE name = "array.json" ->
             JsonArray(<<[role |-> "user", content |-> StringOf("hello"), ts |-> 1]>>)
      [] name = "object.json" -> NotAnArray
      [] name = "broken.json" -> Malformed

\* loadTasks(), called by a function that closed over source s, up to its
\* await: the setters it calls, and the request it issues.
loadTasksCalled(rs, s, from) == Issue(rs, Request("loadTasks", s, null, null, from))

\* The updater of a task-list poll tick, or nothing when the tick failed.
pollTasksAppliedBlank(prev, outcome, fetched) ==
    IF outcome # "ok" THEN <<>> ELSE reconcile(prev, fetched)

pollTasksApplied(prev, outcome, fetched) ==
    IF outcome # "ok" THEN prev ELSE reconcile(prev, fetched)

\* What the App actions leave alone.
AppFrame ==
    /\ UNCHANGED <<prevTasks, data, pc>>
    /\ UNCHANGED <<messages, filterCondensed, showUiMessages>>
    /\ UNCHANGED <<builderMessages, isTestingAPI, apiResponse, apiLogs, call>>

\* The effects run after the render of the next state.
RunEffects == intervals' = Effects(mode', source', selectedTask')

\* handleModeChange: the state it sets, of the state it reads.
handleModeChangeKeepingPreview(appMode, app) ==
    IF appMode = "builder"
    THEN [app EXCEPT !.mode = appMode, !.selectedTask = null,
                     !.conversation = null, !.uploadedFileName = null]
    ELSE [app EXCEPT !.mode = appMode]

handleModeChange(appMode, app) ==
    IF appMode = "builder"
    THEN [app EXCEPT !.mode = appMode, !.selectedTask = null,
                     !.conversation = null, !.uploadedFileName = null]
    ELSE [app EXCEPT !.mode = appMode, !.previewConversation = NoPreview]

\* The mode toggle: handleModeChange, then the effects of [source, mode],
\* which call loadTasks() on entering viewer mode.  ConversationBuilder is
\* unmounted on leaving builder mode.
HandleModeChange ==
    /\ op.name = "idle"
    /\ \E appMode \in Modes \ {mode} :
        LET set == handleModeChange(appMode,
                       [mode |-> mode, selectedTask |-> selectedTask,
                        conversation |-> conversation,
                        uploadedFileName |-> uploadedFileName,
                        previewConversation |-> previewConversation])
        IN  /\ mode' = set.mode
            /\ uploadedFileName' = set.uploadedFileName
            /\ previewConversation' = set.previewConversation
            /\ IF appMode = "viewer"
               THEN /\ Room
                    /\ loadingTasks' = TRUE
                    /\ error' = null
                    /\ selectedTask' = null
                    /\ conversation' = null
                    /\ uiMessages' = null
                    /\ requests' = loadTasksCalled(requests, source, "effect")
               ELSE /\ selectedTask' = set.selectedTask
                    /\ conversation' = set.conversation
                    /\ UNCHANGED <<uiMessages, loadingTasks, error, requests>>
            /\ op' = [name |-> "handleModeChange", appMode |-> appMode]
    /\ isTestingAPI' = FALSE
    /\ apiResponse' = null
    /\ apiLogs' = <<>>
    /\ call' = Unmounted(call)
    /\ UNCHANGED <<source, tasks, loadingConversation, builderMessages>>
    /\ UNCHANGED <<prevTasks, data, pc, messages, filterCondensed, showUiMessages>>
    /\ RunEffects

\* The source Select, shown in viewer mode: setSource, then the effects of
\* [source, mode], which call loadTasks().
SetSource ==
    /\ op.name = "idle"
    /\ mode = "viewer"
    /\ Room
    /\ \E value \in Sources \ {source} :
        /\ source' = value
        /\ requests' = loadTasksCalled(requests, value, "effect")
        /\ op' = [name |-> "setSource", value |-> value]
    /\ loadingTasks' = TRUE
    /\ error' = null
    /\ selectedTask' = null
    /\ conversation' = null
    /\ uiMessages' = null
    /\ UNCHANGED <<mode, tasks, loadingConversation, uploadedFileName,
                   previewConversation>>
    /\ AppFrame
    /\ RunEffects

\* A click on a task of the list, which TaskList shows when no task load
\* is pending and disables while loadingConversation: loadConversation up
\* to its await.
LoadConversation ==
    /\ op.name = "idle"
    /\ mode = "viewer"
    /\ ~loadingTasks
    /\ ~loadingConversation
    /\ Room
    /\ \E i \in 1..Len(tasks) :
        LET taskId == tasks[i].id
        IN  /\ selectedTask' = taskId
            /\ requests' = Issue(requests,
                   Request("loadConversation", source, taskId, null, null))
            /\ op' = [name |-> "loadConversation", taskId |-> taskId]
    /\ loadingConversation' = TRUE
    /\ error' = null
    /\ conversation' = null
    /\ uiMessages' = null
    /\ UNCHANGED <<mode, source, tasks, loadingTasks, uploadedFileName,
                   previewConversation>>
    /\ AppFrame
    /\ RunEffects

\* The Upload File button, shown in viewer mode: handleFileUpload up to
\* reader.readAsText(file).
HandleFileUpload ==
    /\ op.name = "idle"
    /\ mode = "viewer"
    /\ Room
    /\ \E name \in FileNames :
        /\ requests' = Issue(requests, Request("readAsText", null, null, name, null))
        /\ op' = [name |-> "handleFileUpload", file |-> name]
    /\ loadingConversation' = TRUE
    /\ error' = null
    /\ UNCHANGED <<mode, source, tasks, selectedTask, conversation, uiMessages,
                   loadingTasks, uploadedFileName, previewConversation>>
    /\ AppFrame
    /\ RunEffects

\* onClose of the ConversationView shown in viewer mode.
OnClose ==
    /\ op.name = "idle"
    /\ mode = "viewer"
    /\ ~loadingConversation
    /\ conversation # null
    /\ conversation' = null
    /\ uiMessages' = null
    /\ selectedTask' = null
    /\ uploadedFileName' = null
    /\ op' = [name |-> "onClose"]
    /\ UNCHANGED <<mode, source, tasks, loadingTasks, loadingConversation, error,
                   requests, previewConversation>>
    /\ AppFrame
    /\ RunEffects

\* The task-list timer fires: its callback fetches the list of the source
\* it closed over.
TaskPollTick ==
    /\ op.name = "idle"
    /\ intervals.tasks # NoInterval
    /\ Room
    /\ LET r == Request("taskPoll", intervals.tasks[1], null, null, null)
       IN  /\ requests' = Issue(requests, r)
           /\ op' = [name |-> "taskPollTick", request |-> r]
    /\ UNCHANGED <<mode, source, tasks, selectedTask, conversation, uiMessages,
                   loadingTasks, loadingConversation, error, uploadedFileName,
                   previewConversation, intervals>>
    /\ AppFrame

\* The conversation timer fires: its callback fetches the task it closed
\* over from the source it closed over.
ConversationPollTick ==
    /\ op.name = "idle"
    /\ intervals.conversation # NoInterval
    /\ Room
    /\ LET r == Request("conversationPoll", intervals.conversation[1],
                        intervals.conversation[2], null, null)
       IN  /\ requests' = Issue(requests, r)
           /\ op' = [name |-> "conversationPollTick", request |-> r]
    /\ UNCHANGED <<mode, source, tasks, selectedTask, conversation, uiMessages,
                   loadingTasks, loadingConversation, error, uploadedFileName,
                   previewConversation, intervals>>
    /\ AppFrame

\* loadTasks resumes after its fetch.
LoadTasksResumes ==
    /\ op.name = "idle"
    /\ \E r \in Pending("loadTasks") : \E outcome \in OutcomesOf(r) :
        /\ requests' = Settle(requests, r)
        /\ IF outcome = "ok"
           THEN tasks' = tasksOnServer(r.source) /\ UNCHANGED error
           ELSE /\ error' = "Failed to load tasks. Make sure the server is running."
                /\ UNCHANGED tasks
        /\ op' = [name |-> "loadTasksResumes", request |-> r, outcome |-> outcome]
    /\ loadingTasks' = FALSE
    /\ UNCHANGED <<mode, source, selectedTask, conversation, uiMessages,
                   loadingConversation, uploadedFileName, previewConversation>>
    /\ AppFrame
    /\ RunEffects

\* The callback of a task-list tick resumes after its fetch.
TaskPollResumes ==
    /\ op.name = "idle"
    /\ \E r \in Pending("taskPoll") : \E outcome \in OutcomesOf(r) :
        /\ requests' = Settle(requests, r)
        /\ tasks' = pollTasksApplied(tasks, outcome, tasksOnServer(r.source))
        /\ op' = [name |-> "taskPollResumes", request |-> r, outcome |-> outcome]
    /\ UNCHANGED <<mode, source, selectedTask, conversation, uiMessages,
                   loadingTasks, loadingConversation, error, uploadedFileName,
                   previewConversation>>
    /\ AppFrame
    /\ RunEffects

\* The callback of a conversation tick resumes after its fetch.
ConversationPollResumes ==
    /\ op.name = "idle"
    /\ \E r \in Pending("conversationPoll") : \E outcome \in OutcomesOf(r) :
        /\ requests' = Settle(requests, r)
        /\ IF outcome = "ok"
           THEN /\ conversation' = apiConversationOf(r.task)
                /\ uiMessages' = uiMessagesOf(r.task)
           ELSE UNCHANGED <<conversation, uiMessages>>
        /\ op' = [name |-> "conversationPollResumes", request |-> r,
                  outcome |-> outcome]
    /\ UNCHANGED <<mode, source, tasks, selectedTask, loadingTasks,
                   loadingConversation, error, uploadedFileName,
                   previewConversation>>
    /\ AppFrame
    /\ RunEffects

\* loadConversation resumes after its fetch.  On a 404 it calls the
\* loadTasks of its own render before it returns through finally.
LoadConversationResumes ==
    /\ op.name = "idle"
    /\ \E r \in Pending("loadConversation") : \E outcome \in OutcomesOf(r) :
        /\ CASE outcome = "ok" ->
                    /\ conversation' = apiConversationOf(r.task)
                    /\ uiMessages' = uiMessagesOf(r.task)
                    /\ requests' = Settle(requests, r)
                    /\ UNCHANGED <<error, selectedTask, loadingTasks>>
             [] outcome = "notFound" ->
                    /\ loadingTasks' = TRUE
                    /\ error' = null
                    /\ selectedTask' = null
                    /\ conversation' = null
                    /\ uiMessages' = null
                    /\ requests' = loadTasksCalled(Settle(requests, r), r.source,
                                                   "loadConversation")
             [] outcome = "failed" ->
                    /\ error' = "Failed to load conversation"
                    /\ selectedTask' = null
                    /\ requests' = Settle(requests, r)
                    /\ UNCHANGED <<conversation, uiMessages, loadingTasks>>
        /\ op' = [name |-> "loadConversationResumes", request |-> r,
                  outcome |-> outcome]
    /\ loadingConversation' = FALSE
    /\ UNCHANGED <<mode, source, tasks, uploadedFileName, previewConversation>>
    /\ AppFrame
    /\ RunEffects

\* The FileReader is done: reader.onload, or reader.onerror.
ReaderDone ==
    /\ op.name = "idle"
    /\ \E r \in Pending("readAsText"), read \in BOOLEAN :
        LET file == FileContent(r.file)
        IN  /\ requests' = Settle(requests, r)
            /\ IF read /\ file.wellFormed /\ file.isArray
               THEN /\ conversation' = file.items
                    /\ uiMessages' = null
                    /\ selectedTask' = null
                    /\ uploadedFileName' = r.file
                    /\ UNCHANGED error
               ELSE /\ error' = IF ~read THEN "Failed to read file."
                                ELSE IF ~file.wellFormed
                                THEN "Failed to parse JSON file."
                                ELSE "Invalid file format. Expected an array of messages."
                    /\ UNCHANGED <<conversation, uiMessages, selectedTask,
                                   uploadedFileName>>
            /\ op' = [name |-> "readerDone", request |-> r,
                      outcome |-> IF read /\ file.wellFormed /\ file.isArray
                                  THEN "ok" ELSE "failed"]
    /\ loadingConversation' = FALSE
    /\ UNCHANGED <<mode, source, tasks, loadingTasks, previewConversation>>
    /\ AppFrame
    /\ RunEffects

\* App mounts in the stored mode with the stored source; in viewer mode the
\* effects have called loadTasks() and set the task-list timer.
InitApp ==
    /\ InitTaskVars /\ InitViewIdle /\ InitBuilderVars
    /\ mode \in Modes
    /\ source \in Sources
    /\ selectedTask = null
    /\ conversation = null
    /\ loadingTasks = (mode = "viewer")
    /\ loadingConversation = FALSE
    /\ error = null
    /\ uploadedFileName = null
    /\ requests = IF mode = "viewer"
                  THEN loadTasksCalled(<<>>, source, "effect") ELSE <<>>
    /\ intervals = Effects(mode, source, null)

NextApp ==
    \/ HandleModeChange
    \/ SetSource
    \/ LoadConversation
    \/ HandleFileUpload
    \/ OnClose
    \/ TaskPollTick
    \/ ConversationPollTick
    \/ LoadTasksResumes
    \/ TaskPollResumes
    \/ ConversationPollResumes
    \/ LoadConversationResumes
    \/ ReaderDone
    \/ HandlerReturns

SpecApp == InitApp /\ [][NextApp]_vars

\* The mode toggle and the preview over a draft, with the loads that give
\* the viewer something to clear.
NextModes ==
    \/ HandleModeChange
    \/ LoadConversation
    \/ HandleFileUpload
    \/ LoadTasksResumes
    \/ LoadConversationResumes
    \/ ReaderDone
    \/ AddMessageToSend
    \/ HandlePreview
    \/ ClosePreview
    \/ HandlerReturns

SpecModes == InitApp /\ [][NextModes]_vars

-----------------------------------------------------------------------------
(* normalizeContent applied to the content of a message *)

MaxNormalized == 2  \* blocks in a content that is a list

UnknownBlock == [type |-> "thinking", id |-> undefined, tool_use_id |-> undefined]

Contents ==
    {StringOf(s) : s \in {"", "hello"}}
    \cup {ArrayContent(bs) : bs \in SeqsUpTo(Blocks \cup {UnknownBlock}, MaxNormalized)}
    \cup {OtherContent(v) :
             v \in {JsNull} \cup {JsNumber(n) : n \in {0, 7, 42, -1}}
                   \cup {JsBoolean(b) : b \in BOOLEAN}
                   \cup {JsObject(keys) : keys \in SUBSET {"toString", "valueOf", "type"}}}

\* ConversationView renders a message: normalizeContent(message.content)
NormalizeContent ==
    /\ op = Idle
    /\ Len(messages) = 1
    /\ LET content == messages[1].content
           returned == normalizeContent(content)
       IN  op' = [name |-> "normalizeContent", content |-> content,
                  threw |-> (content.kind = "other" /\ returned = TypeError),
                  returned |-> returned]
    /\ UNCHANGED <<builderMessages, previewConversation, isTestingAPI,
                   apiResponse, apiLogs, call>>
    /\ UNCHANGED <<taskVars, viewVars, appVars>>

InitContent ==
    /\ \E c \in Contents : messages = <<Msg(c, 1, NoMarks)>>
    /\ uiMessages = null
    /\ filterCondensed = TRUE
    /\ showUiMessages = FALSE
    /\ InitTaskVars /\ InitBuilderVars /\ InitAppVars("viewer")

NextContent == NormalizeContent \/ HandlerReturns

SpecContent == InitContent /\ [][NextContent]_vars

-----------------------------------------------------------------------------
(* Properties of the task-list poll tick *)

Applied == pc \in {"updated", "merged"}

Ids(list) == {list[i].id : i \in 1..Len(list)}

\* The entry of list with the given id (ids are distinct).
Entry(list, id) == list[CHOOSE i \in 1..Len(list) : list[i].id = id]

\* C1: after a poll tick every entry whose id occurs in the fetched list
\* carries the timestamp the fetched list gives it, also when the fetched
\* list holds new ids.
C1_FetchedTimestampsCarried ==
    Applied =>
        \A i \in 1..Len(tasks) : \A k \in 1..Len(data) :
            data[k].id = tasks[i].id => tasks[i].timestamp = data[k].timestamp

\* C2: reconcile neither fabricates nor drops entries: with distinct ids in
\* the list held and in the fetched list, the result holds exactly one
\* entry for each id of either list, so a task in the list stays in it.
C2_NoFabricateNoDrop ==
    (Applied /\ DistinctIds(prevTasks) /\ DistinctIds(data)) =>
        /\ DistinctIds(tasks)
        /\ Ids(tasks) = Ids(prevTasks) \cup Ids(data)
        /\ Len(tasks) = Cardinality(Ids(prevTasks) \cup Ids(data))

\* A tick that adds a task while the list holds one the fetched list lacks.
C2_Witness ==
    /\ pc = "merged"
    /\ Ids(data) \ Ids(prevTasks) # {}
    /\ Ids(prevTasks) \ Ids(data) # {}
    /\ Ids(prevTasks) \cap Ids(data) # {}

\* The place an entry has in the array the tick sorts: the new tasks in
\* fetched order, then the list held in its order.
PreSortRank(id) ==
    IF id \in Ids(prevTasks)
    THEN Len(data) + (CHOOSE i \in 1..Len(prevTasks) : prevTasks[i].id = id)
    ELSE CHOOSE k \in 1..Len(data) : data[k].id = id

\* C3: after every applied poll tick, on either path, the list is sorted by
\* descending timestamp and entries of equal timestamp keep the order they
\* had before the sort.
C3_SortedDescStable ==
    Applied =>
        \A i, j \in 1..Len(tasks) :
            i < j =>
                /\ tasks[i].timestamp >= tasks[j].timestamp
                /\ tasks[i].timestamp = tasks[j].timestamp =>
                       PreSortRank(tasks[i].id) < PreSortRank(tasks[j].id)

\* A tick of the no-new-task path that moves an entry and leaves a tie.
C3_Witness ==
    /\ pc = "updated"
    /\ Len(tasks) = 3
    /\ [i \in 1..Len(tasks) |-> tasks[i].id]
           # [i \in 1..Len(prevTasks) |-> prevTasks[i].id]
    /\ \E i \in 1..2 : tasks[i].timestamp = tasks[i + 1].timestamp

\* C4: when the fetched list holds no new id, every entry keeps its id and
\* firstMessage, an entry the fetched list names changes its timestamp
\* only, and an entry it does not name is unchanged.
C4_OnlyTimestampUpdated ==
    pc = "updated" =>
        /\ Len(tasks) = Len(prevTasks)
        /\ \A i \in 1..Len(prevTasks) :
               LET p == prevTasks[i]
               IN  /\ p.id \in Ids(tasks)
                   /\ Entry(tasks, p.id).firstMessage = p.firstMessage
                   /\ p.id \notin Ids(data) => Entry(tasks, p.id) = p
                   /\ p.id \in Ids(data) =>
                          Entry(tasks, p.id) =
                              [p EXCEPT !.timestamp = Entry(data, p.id).timestamp]

\* A tick where the fetched entry differs in timestamp and firstMessage
\* from the entry held, and another entry held is not fetched.
C4_Witness ==
    /\ pc = "updated"
    /\ \E i \in 1..Len(prevTasks) : \E k \in 1..Len(data) :
           /\ data[k].id = prevTasks[i].id
           /\ data[k].timestamp # prevTasks[i].timestamp
           /\ data[k].firstMessage # prevTasks[i].firstMessage
    /\ Ids(prevTasks) \ Ids(data) # {}

\* C5: reconcile is idempotent: the list a tick produced, reconciled with
\* itself, is that list, entries and order.
C5_Idempotent ==
    Applied => reconcile(tasks, tasks) = tasks

\* A tick that produced three entries, two of them of equal timestamp.
C5_Witness ==
    /\ Applied
    /\ Len(tasks) = 3
    /\ \E i \in 1..2 : tasks[i].timestamp = tasks[i + 1].timestamp

-----------------------------------------------------------------------------
(* Properties of ConversationView's derived views *)

\* The blocks of message i (1-based) after normalization.
BlocksOfMessage(i) == normalizeContent(messages[i].content)

\* The places <<i, j>> of the tool_use blocks that carry a non-empty id.
ToolUsePlaces ==
    {p \in UNION {{<<i, j>> : j \in 1..Len(BlocksOfMessage(i))} : i \in 1..Len(messages)} :
        /\ BlocksOfMessage(p[1])[p[2]].type = "tool_use"
        /\ BlocksOfMessage(p[1])[p[2]].id \notin {undefined, ""}}

ToolUseIdsDistinct ==
    \A p, q \in ToolUsePlaces :
        BlocksOfMessage(p[1])[p[2]].id = BlocksOfMessage(q[1])[q[2]].id => p = q

\* Some tool_result block of the conversation answers id.
Answered(id) ==
    \E i \in 1..Len(messages) : \E j \in 1..Len(BlocksOfMessage(i)) :
        /\ BlocksOfMessage(i)[j].type = "tool_result"
        /\ BlocksOfMessage(i)[j].tool_use_id = id

\* C6: when the tool_use ids are pairwise distinct, the missing-result set
\* is exactly the ids of the tool_use blocks with a non-empty id that no
\* tool_result answers and whose message is not the last one.
C6_MissingResultsExact ==
    LET places == ToolUsePlaces
        idAt == [p \in places |-> BlocksOfMessage(p[1])[p[2]].id]
    IN  (\A p, q \in places : idAt[p] = idAt[q] => p = q) =>
            toolUsesMissingResults =
                {idAt[p] : p \in {p \in places :
                                     ~Answered(idAt[p]) /\ p[1] # Len(messages)}}

\* A conversation with an unanswered tool_use in its first message, which
\* is flagged, and another in its last message, which is not.
C6_Witness ==
    /\ ToolUseIdsDistinct
    /\ Len(messages) >= 2
    /\ toolUsesMissingResults = {"a1"}
    /\ \E j \in 1..Len(BlocksOfMessage(Len(messages))) :
           BlocksOfMessage(Len(messages))[j] = ToolUse("a2")
    /\ ~Answered("a2")

\* C28: an id carried by several tool_use blocks and answered by no
\* tool_result is flagged as missing exactly when its last occurrence is in
\* a message that is not the last one, and every block carrying it shows the
\* warning exactly when the id is flagged.
C28_LastOccurrenceDecides ==
    LET places == ToolUsePlaces
        idAt == [p \in places |-> BlocksOfMessage(p[1])[p[2]].id]
        flagged == toolUsesMissingResults
    IN  \A p \in places :
            LET carrying == {q \in places : idAt[q] = idAt[p]}
                last == CHOOSE q \in carrying :
                            \A r \in carrying :
                                r[1] < q[1] \/ (r[1] = q[1] /\ r[2] <= q[2])
            IN  (Cardinality(carrying) > 1 /\ ~Answered(idAt[p])) =>
                    /\ idAt[p] \in flagged <=> last[1] # Len(messages)
                    /\ hasMissingResult(BlocksOfMessage(p[1])[p[2]])
                           <=> idAt[p] \in flagged

\* An unanswered id in the first message and again in the last: no block
\* carrying it shows the warning.
C28_Witness ==
    /\ Len(messages) = 2
    /\ ~Answered("a1")
    /\ \E j \in 1..Len(BlocksOfMessage(1)) : BlocksOfMessage(1)[j] = ToolUse("a1")
    /\ \E j \in 1..Len(BlocksOfMessage(2)) : BlocksOfMessage(2)[j] = ToolUse("a1")
    /\ ~hasMissingResult(ToolUse("a1"))

IsSetId(v) == v \notin {undefined, ""}

\* The exclusion rule: the message's condenseParent is set and is the
\* condenseId of a summary, or its truncationParent is set and is the
\* truncationId of a truncation marker.
Excluded(m) ==
    \/ /\ IsSetId(m.condenseParent)
       /\ \E i \in 1..Len(messages) :
              messages[i].isSummary /\ messages[i].condenseId = m.condenseParent
    \/ /\ IsSetId(m.truncationParent)
       /\ \E i \in 1..Len(messages) :
              /\ messages[i].isTruncationMarker
              /\ messages[i].truncationId = m.truncationParent

KeptIndices == {i \in 1..Len(messages) : ~Excluded(messages[i])}

\* C7: with the filter on, the filtered view is the subsequence of the
\* messages, in their order, that the exclusion rule does not match; either
\* mechanism alone excludes a message.
C7_FilteredIsNotExcluded ==
    filterCondensed =>
        LET shown == filteredMessages
            kept == KeptIndices
            place == [k \in 1..Cardinality(kept) |->
                         CHOOSE i \in kept :
                             Cardinality({j \in kept : j < i}) = k - 1]
        IN  /\ Len(shown) = Cardinality(kept)
            /\ \A k \in 1..Len(shown) : shown[k] = messages[place[k]]

\* The filter on over a truncation marker and a message it hides: the
\* message names the marker's id as condenseParent too, which no summary
\* carries.
C7_Witness ==
    /\ filterCondensed
    /\ Len(messages) = 2
    /\ Len(filteredMessages) = 1
    /\ \E i, j \in 1..2 :
           /\ messages[i].isTruncationMarker
           /\ ~messages[i].isSummary
           /\ messages[j].truncationParent = messages[i].truncationId
           /\ messages[j].condenseParent = messages[i].truncationId
           /\ filteredMessages = <<messages[i]>>

\* C8: the hidden count is the number of messages the exclusion rule
\* matches whatever the toggle; with the toggle on the filtered view is
\* shorter than the messages by the hidden count, with it off the filtered
\* view is the messages.
C8_HiddenCountIndependent ==
    /\ hiddenCount = Cardinality({i \in 1..Len(messages) : Excluded(messages[i])})
    /\ filterCondensed => Len(filteredMessages) = Len(messages) - hiddenCount
    /\ ~filterCondensed => filteredMessages = messages

\* The toggle switched off over a conversation with one hidden message.
C8_Witness ==
    /\ ~filterCondensed
    /\ hiddenCount = 1
    /\ Len(messages) >= 2

IsMarker(m) == m.isSummary \/ m.isTruncationMarker

\* No summary names its own condenseId as its condenseParent, no truncation
\* marker its own truncationId as its truncationParent.
NoOwnParent ==
    \A i \in 1..Len(messages) :
        /\ messages[i].isSummary =>
               messages[i].condenseParent \in {undefined} \cup (MarkIds \ {messages[i].condenseId})
        /\ messages[i].isTruncationMarker =>
               messages[i].truncationParent \in {undefined} \cup (MarkIds \ {messages[i].truncationId})

\* C9 as stated: a summary or truncation-marker message is never excluded:
\* every message with isSummary or isTruncationMarker is in the filtered
\* view (checked over the conversations where none is its own parent).
C9_MarkersNeverExcluded ==
    NoOwnParent =>
        \A i \in 1..Len(messages) :
            IsMarker(messages[i]) => messages[i] \in Range(filteredMessages)

\* C9 amended: a summary or truncation-marker message is excluded only by
\* its own parent reference: when the exclusion rule does not match it, it
\* is in the filtered view, whatever names it as a parent.
C9_MarkersKeptUnlessSuperseded ==
    \A i \in 1..Len(messages) :
        (IsMarker(messages[i]) /\ ~Excluded(messages[i])) =>
            messages[i] \in Range(filteredMessages)

\* The filter on over a summary that stays while the message it condensed
\* is hidden.
C9_Witness ==
    /\ filterCondensed
    /\ \E i, j \in 1..Len(messages) :
           /\ messages[i].isSummary
           /\ messages[i].condenseParent = undefined
           /\ messages[i].truncationParent = undefined
           /\ messages[j].condenseParent = messages[i].condenseId
           /\ messages[j] \notin Range(filteredMessages)
           /\ messages[i] \in Range(filteredMessages)

HybridActive == showUiMessages /\ uiMessages # null

\* The place an item had in the concatenation: API messages in list order,
\* then UI messages in list order.
InputRank(item) ==
    IF item.type = "api" THEN item.index ELSE Len(filteredMessages) + item.index

\* C10: when hybrid display is active the merged list holds every displayed
\* API message and every UI message exactly once, in ascending timestamp
\* order, items of equal timestamp in input order (API before UI).
C10_MergeStableAscending ==
    HybridActive =>
        LET merged == hybridMessages
            shown == filteredMessages
            rank == [n \in 1..Len(merged) |-> InputRank(merged[n])]
        IN  /\ Len(merged) = Len(shown) + Len(uiMessages)
            /\ \A k \in 1..Len(shown) :
                   \E n \in 1..Len(merged) :
                       merged[n] = [type |-> "api", index |-> k, ts |-> shown[k].ts]
            /\ \A k \in 1..Len(uiMessages) :
                   \E n \in 1..Len(merged) :
                       merged[n] = [type |-> "ui", index |-> k, ts |-> uiMessages[k].ts]
            /\ \A i, j \in 1..Len(merged) :
                   i < j =>
                       /\ merged[i].ts <= merged[j].ts
                       /\ merged[i].ts = merged[j].ts => rank[i] < rank[j]

\* Hybrid display over two API messages of one timestamp and two UI
\* messages, the first of that timestamp, the second earlier.
C10_Witness ==
    /\ HybridActive
    /\ Len(filteredMessages) = 2
    /\ filteredMessages[1].ts = 2
    /\ filteredMessages[2].ts = 2
    /\ Len(uiMessages) = 2
    /\ uiMessages[1].ts = 2
    /\ uiMessages[2].ts = 1

StreamPresentAndOptedIn == uiMessages # null /\ showUiMessages

\* C11: the merged timeline is the rendered list only when the UI stream is
\* non-null and the switch is on; in every other state the rendered list is
\* the filtered API messages in their order; and the missing-result set
\* changes only when the API messages change, never with the UI messages or
\* the switch.
C11_HybridOnlyWhenOptedIn ==
    /\ [](/\ renderedList.list = "hybrid" => StreamPresentAndOptedIn
          /\ ~StreamPresentAndOptedIn =>
                 renderedList = [list |-> "api", items |-> filteredMessages])
    /\ [][messages' = messages =>
              toolUsesMissingResults' = toolUsesMissingResults]_vars

\* The switch left on over a conversation whose UI stream has gone: the
\* filtered messages are rendered.
C11_Witness ==
    /\ showUiMessages
    /\ uiMessages = null
    /\ Len(filteredMessages) >= 1
    /\ renderedList.list = "api"

-----------------------------------------------------------------------------
(* Properties of the builder's editor *)

\* A file importMessages has to reject: its text is not JSON, or its JSON
\* is not an array.
Rejected(file) == IF file.wellFormed THEN ~file.isArray ELSE TRUE

\* C12: an import of a file whose text is malformed JSON, or whose top-level
\* JSON value is not an array, shows the user an error and leaves the draft
\* as it was.  The code shows no error for well-formed JSON that is not an
\* array: the formula is violated.
C12_RejectedImportAlerts ==
    [][op'.name = "importMessages" /\ Rejected(op'.file) =>
           /\ builderMessages' = builderMessages
           /\ op'.alert # null]_vars

\* A message as JSON writes it, its _id left out.
ValueOf(message) ==
    With(Without(message, "_id"), "content", Values(message.content))

\* The lists hold the same messages position by position, _ids apart: the
\* same role, the same content blocks and the same other fields.
SameButIds(a, b) ==
    /\ Len(a) = Len(b)
    /\ \A i \in 1..Len(a) : ValueOf(a[i]) = ValueOf(b[i])

BlockObjects(message) == {message.content[j] : j \in 1..Len(message.content)}

\* The entries of a draft that a step changed.
Changed(before, after) ==
    {i \in 1..Len(before) : i > Len(after) \/ after[i] # before[i]}

Strangers(message) ==
    {With(message, "_id", FreshId(UsedIds)), Without(message, "_id")}

Others(msgs, id) == RemoveAt(msgs, findIndex(msgs, id))

\* C17: a drag of the message fromId dropped on the message toId leaves a
\* permutation of the draft in which every message keeps its value and its
\* _id: the dragged message is at the index the drop target had and the
\* other messages are in the order they were in; a drag dropped on no
\* message, or on the dragged message, leaves the draft as it was.
C17_ReorderIsRelocation ==
    [][op'.name = "handleDragEnd" =>
           LET fromId == op'.active
               toId == op'.over
           IN  IF toId = NoOver \/ fromId = toId
               THEN builderMessages' = builderMessages
               ELSE /\ Len(builderMessages') = Len(builderMessages)
                    /\ findIndex(builderMessages', fromId)
                           = findIndex(builderMessages, toId)
                    /\ builderMessages'[findIndex(builderMessages', fromId)]
                           = builderMessages[findIndex(builderMessages, fromId)]
                    /\ Others(builderMessages', fromId)
                           = Others(builderMessages, fromId)]_vars

\* The first of three messages dragged onto the last: the two others move
\* up in their order.
C17_Witness ==
    /\ op.name = "handleDragEnd"
    /\ Len(builderMessages) = 3
    /\ op.active = builderMessages[3]["_id"]
    /\ op.over = builderMessages[2]["_id"]
    /\ builderMessages[1].role # builderMessages[2].role

-----------------------------------------------------------------------------
(* Properties of the builder's export, preview and API call *)

\* No message of the list carries an _id.
NoIds(msgs) == \A i \in 1..Len(msgs) : "_id" \notin DOMAIN msgs[i]

\* Every message of the list carries an _id.
AllIds(msgs) == \A i \in 1..Len(msgs) : "_id" \in DOMAIN msgs[i]

\* C14: no message of the file Export writes, of the list Preview hands to
\* App or of the request testAPI sends carries an _id, and the draft is
\* after each of them the draft it was, every message under its _id.
C14_IdsStayInBuilder ==
    [][/\ op'.name = "exportMessages" => NoIds(op'.download.items)
       /\ op'.name = "handlePreview" => NoIds(previewConversation'.messages)
       /\ op'.name = "testAPI" /\ call'.state = "sent" => NoIds(call'.request)
       /\ op'.name \in {"exportMessages", "handlePreview", "testAPI"} =>
              /\ builderMessages' = builderMessages
              /\ AllIds(builderMessages')]_vars

\* A draft previewed while its request is in flight.
C14_Witness ==
    /\ call.state = "sent"
    /\ ~previewConversation.isNull
    /\ Len(previewConversation.messages) >= 1
    /\ Len(call.request) >= 1
    /\ AllIds(builderMessages)

\* The value of a field of a block, the empty string when the block has none.
Field(block, k) == IF k \in DOMAIN block /\ block[k] # "" THEN block[k] ELSE ""

\* The entry of an external user message a block is sent as.
SentAs(block) ==
    CASE block.type = "text" -> [type |-> "text", text |-> Field(block, "text")]
      [] block.type = "image" /\ "source" \in DOMAIN block ->
             [type |-> "image_url",
              image_url |->
                  [url |-> "data:"
                       \o (IF "media_type" \in DOMAIN block.source
                           THEN block.source.media_type ELSE "image/png")
                       \o ";base64," \o Field(block.source, "data")]]
      [] OTHER -> block

\* The messages sent for a user message are those the claim describes.
UserTranslation(m, out) ==
    LET blocks == Values(m.content)
        results == SelectSeq(blocks, LAMBDA b : b.type = "tool_result")
        rest == SelectSeq(blocks, LAMBDA b : b.type # "tool_result")
    IN  /\ Len(out) = Len(results) + (IF Len(rest) > 0 THEN 1 ELSE 0)
        /\ \A k \in 1..Len(results) :
               out[k] = [role |-> "tool",
                         tool_call_id |-> Field(results[k], "tool_use_id"),
                         content |-> Field(results[k], "content")]
        /\ Len(rest) > 0 =>
               /\ out[Len(out)].role = "user"
               /\ Len(out[Len(out)].content) = Len(rest)
               /\ \A k \in 1..Len(rest) : out[Len(out)].content[k] = SentAs(rest[k])
        /\ Len(rest) = 0 => \A k \in 1..Len(out) : out[k].role # "user"
        /\ blocks = <<[type |-> "tool_result", tool_use_id |-> "a1", content |-> "ok"],
                      [type |-> "text", text |-> "thanks"]>> =>
               out = <<[role |-> "tool", tool_call_id |-> "a1", content |-> "ok"],
                       [role |-> "user",
                        content |-> <<[type |-> "text", text |-> "thanks"]>>]>>

\* C18: the request holds, for a user message of the draft, one message of
\* role tool per tool_result block, in block order, with the block's
\* tool_use_id as tool_call_id and the block's content (the empty string
\* for a field the block lacks), and after them one user message of the
\* other blocks in their order when there are any, text blocks as text
\* entries and image blocks as data-URL entries, and no user message when
\* there are none; [tool_result(a1, "ok"), text("thanks")] is sent as the
\* tool message (a1, "ok") and a user message of the text "thanks".
C18_UserMessageTranslation ==
    call.state = "sent" =>
        /\ \A i \in 1..Len(call.messages) :
               call.messages[i].role = "user" =>
                   UserTranslation(call.messages[i], userMessages(call.messages[i]))
        /\ Len(call.messages) = 1 /\ call.messages[1].role = "user" =>
               UserTranslation(call.messages[1], call.request)

\* The request of the user message [tool_result(a1, "ok"), text("thanks")].
C18_Witness ==
    /\ call.state = "sent"
    /\ Len(call.messages) = 1
    /\ call.messages[1].role = "user"
    /\ Values(call.messages[1].content)
           = <<[type |-> "tool_result", tool_use_id |-> "a1", content |-> "ok"],
               [type |-> "text", text |-> "thanks"]>>
    /\ Len(call.request) = 2

\* The message sent for an assistant message is the one the claim describes.
AssistantTranslation(m, out) ==
    LET blocks == Values(m.content)
        texts == SelectSeq(blocks, LAMBDA b : b.type = "text")
        uses == SelectSeq(blocks, LAMBDA b : b.type = "tool_use")
    IN  /\ out.role = "assistant"
        /\ Len(texts) = 0 => out.content = null
        /\ Len(texts) = 1 => out.content = Field(texts[1], "text")
        /\ Len(texts) = 2 =>
               out.content = Field(texts[1], "text") \o "\n" \o Field(texts[2], "text")
        /\ Len(texts) = 3 =>
               out.content = Field(texts[1], "text") \o "\n" \o Field(texts[2], "text")
                                 \o "\n" \o Field(texts[3], "text")
        /\ Len(uses) = 0 <=> "tool_calls" \notin DOMAIN out
        /\ Len(uses) > 0 =>
               /\ Len(out.tool_calls) = Len(uses)
               /\ \A k \in 1..Len(uses) :
                      /\ out.tool_calls[k].id = Field(uses[k], "id")
                      /\ out.tool_calls[k].type = "function"
                      /\ out.tool_calls[k].function.name = Field(uses[k], "name")
                      /\ out.tool_calls[k].function.arguments
                             = (IF "input" \in DOMAIN uses[k]
                                THEN "{\"path\":\"sample_path\"}" ELSE "{}")

\* C19: the request holds, for an assistant message of the draft, one
\* message of role assistant: its content is the texts of the text blocks
\* joined by newlines in block order, null when there is no text block; it
\* has one tool call per tool_use block, in block order, with the block's
\* id and name and its input as JSON text, and no tool_calls field when
\* there is no tool_use block.
C19_AssistantMessageTranslation ==
    call.state = "sent" =>
        /\ \A i \in 1..Len(call.messages) :
               call.messages[i].role = "assistant" =>
                   AssistantTranslation(call.messages[i], assistantMsg(call.messages[i]))
        /\ Len(call.messages) = 1 /\ call.messages[1].role = "assistant" =>
               /\ Len(call.request) = 1
               /\ AssistantTranslation(call.messages[1], call.request[1])

\* The request of an assistant message of two texts, and of one of a text
\* and a tool call.
C19_Witness ==
    /\ call.state = "sent"
    /\ Len(call.messages) = 1
    /\ call.messages[1].role = "assistant"
    /\ Len(call.request) = 1
    /\ \/ call.request[1].content = "thanks\na"
       \/ /\ call.request[1].content = "thanks"
          /\ "tool_calls" \in DOMAIN call.request[1]

\* C20: when the request fails (fetch rejects, the body is not JSON, the
\* reply cannot be converted) the draft is left as it was, an entry with
\* the error text is added to the call log and isTestingAPI is false.  The
\* code adds no entry when the builder was replaced by the preview while
\* the call was in flight: the formula is violated.
C20_FailureLoggedDraftIntact ==
    [][op'.name = "testAPI failed" =>
           /\ builderMessages' = builderMessages
           /\ Len(apiLogs') > Len(apiLogs)
           /\ apiLogs'[1] = errorEntry(op'.error)
           /\ ~isTestingAPI']_vars

\* C26: a reply that carries text or tool calls is appended to the draft:
\* the draft after it is the draft as it was just before with the new
\* assistant message at the end, whatever was edited while the request was
\* in flight.  The code appends to the draft the call was started with: the
\* formula is violated.
C26_ReplyAppendedToCurrentDraft ==
    [][(op'.name = "testAPI done" /\ op'.appended) =>
           /\ Len(builderMessages') = Len(builderMessages) + 1
           /\ SubSeq(builderMessages', 1, Len(builderMessages)) = builderMessages
           /\ builderMessages'[Len(builderMessages')].role = "assistant"]_vars

\* C27: the _id values of the messages of the draft are pairwise distinct,
\* whatever sequence of additions, updates, deletions, duplications,
\* reorderings, imports, auto-fills and appended replies made the draft.
C27_DraftIdsDistinct ==
    \A i, j \in 1..Len(builderMessages) :
        builderMessages[i]["_id"] = builderMessages[j]["_id"] => i = j

\* A reply appended to the draft a call was started with, which held a
\* message and its duplicate.
C27_Witness ==
    /\ op.name = "testAPI done"
    /\ op.appended
    /\ Len(builderMessages) = 3
    /\ Values(builderMessages[1].content) = Values(builderMessages[2].content)

-----------------------------------------------------------------------------
(* Properties of App's loads, polls and modes *)

\* A list or null, kept as it was.
Kept(before, after) ==
    IF before = null THEN after = null
    ELSE IF after = null THEN FALSE ELSE after = before

\* C21: a response is applied only under the context it was requested in.
\* A task-list response requested for a source changes the task list only
\* if that is still the source and the mode is viewer when it arrives; a
\* conversation response requested for a task changes conversation and
\* uiMessages only if that task is still selected, from the same source,
\* in viewer mode.  The code applies every response: the formula is
\* violated.
C21_StaleResponsesDiscarded ==
    [][/\ (/\ op'.name \in {"loadTasksResumes", "taskPollResumes"}
           /\ (op'.request.source # source \/ mode # "viewer"))
              => tasks' = tasks
       /\ (/\ op'.name \in {"loadConversationResumes", "conversationPollResumes"}
           /\ \/ op'.request.task # selectedTask
              \/ op'.request.source # source
              \/ mode # "viewer")
              => (Kept(conversation, conversation') /\ Kept(uiMessages, uiMessages'))]_vars

\* C22: a task-list poll request is issued only in viewer mode and for the
\* current source, and a conversation poll request only in viewer mode for
\* the task that is selected and the current source: the timer of a context
\* that was left issues no request.
C22_PollsUnderOwningContext ==
    [][/\ op'.name = "taskPollTick" =>
              (mode = "viewer" /\ op'.request.source = source)
       /\ op'.name = "conversationPollTick" =>
              /\ mode = "viewer"
              /\ selectedTask # null
              /\ op'.request.task = selectedTask
              /\ op'.request.source = source]_vars

\* A conversation tick for the task selected from the production list.
C22_Witness ==
    /\ op.name = "conversationPollTick"
    /\ op.request.source = "production"
    /\ op.request.task = "t2"

\* C23: a failed tick of either polling loop leaves tasks, conversation,
\* uiMessages, selectedTask and error as they were and leaves the timers
\* set, so that the next tick fetches again.
C23_FailedTickChangesNothing ==
    [][(/\ op'.name \in {"taskPollResumes", "conversationPollResumes"}
        /\ op'.outcome # "ok")
           => /\ tasks' = tasks
              /\ Kept(conversation, conversation')
              /\ Kept(uiMessages, uiMessages')
              /\ selectedTask' = selectedTask
              /\ error' = error
              /\ intervals' = intervals]_vars

\* A task-list tick that failed over a list that holds a task, with the
\* timer still set.
C23_Witness ==
    /\ op.name = "taskPollResumes"
    /\ op.outcome = "failed"
    /\ Len(tasks) > 0
    /\ intervals.tasks # NoInterval

\* C24: every failed user-initiated load ends with an error shown: error is
\* not null when a failed loadTasks returns, when a failed loadConversation
\* returns (for a 404, when the loadTasks it called has returned as well),
\* and when a file could not be read or parsed or holds no array; a failed
\* loadConversation leaves no task selected.  On a 404 the loadTasks that
\* loadConversation calls clears the error it has just set: the formula is
\* violated.
C24_FailedLoadShowsError ==
    [][/\ (/\ op'.name = "loadTasksResumes"
           /\ (op'.outcome # "ok" \/ op'.request.from = "loadConversation"))
              => error' # null
       /\ (op'.name = "loadConversationResumes" /\ op'.outcome # "ok")
              => selectedTask' = null
       /\ (op'.name = "loadConversationResumes" /\ op'.outcome = "failed")
              => error' # null
       /\ (op'.name = "readerDone" /\ op'.outcome # "ok")
              => error' # null]_vars

\* The loads that hold loadingConversation: loadConversation fetches and
\* file reads in flight.
ConversationLoads(kind) ==
    LET RECURSIVE Sum(_)
        Sum(S) == IF S = {} THEN 0
                  ELSE LET r == CHOOSE r \in S : TRUE
                       IN  requests[r] + Sum(S \ {r})
    IN  Sum(Pending(kind))

\* C29: at most one loadConversation request is in flight, and
\* loadingConversation is true exactly while a loadConversation request or
\* a file read is pending.  A file read that ends while a request is in
\* flight resets the flag: the formula is violated.
C29_OneConversationLoad ==
    /\ ConversationLoads("loadConversation") <= 1
    /\ loadingConversation <=>
           ConversationLoads("loadConversation") + ConversationLoads("readAsText") > 0

\* C30: a mode change, the opening of a preview and its closing leave the
\* draft as it was; a change to builder mode clears selectedTask,
\* conversation and uploadedFileName, and a change to viewer mode clears
\* the preview.
C30_ModesKeepDraft ==
    [][(mode' # mode \/ previewConversation' # previewConversation) =>
           /\ builderMessages' = builderMessages
           /\ (mode' # mode /\ mode' = "builder") =>
                  /\ selectedTask' = null
                  /\ conversation' = null
                  /\ uploadedFileName' = null
           /\ (mode' # mode /\ mode' = "viewer") => previewConversation'.isNull]_vars

\* Viewer mode entered from the preview of a draft, the draft kept.
C30_Witness ==
    /\ op.name = "handleModeChange"
    /\ mode = "viewer"
    /\ Len(builderMessages) > 0
    /\ previewConversation.isNull

-----------------------------------------------------------------------------
(* Properties of normalizeContent *)

\* C25: normalizeContent never fails and returns a list of blocks: the one
\* text block holding s for a string s, the list itself for a list, and one
\* text block holding the string conversion for any other value.  The code
\* throws for an object whose own toString property hides the inherited
\* one: the formula is violated.
C25_NormalizeNeverFails ==
    op.name = "normalizeContent" =>
        /\ ~op.threw
        /\ op.content.kind = "string" =>
               /\ Len(op.returned) = 1
               /\ op.returned[1].type = "text"
               /\ op.returned[1].text = op.content.text
        /\ op.content.kind = "array" => op.returned = op.content.blocks
        /\ op.content.kind = "other" =>
               /\ Len(op.returned) = 1
               /\ op.returned[1].type = "text"
               /\ op.returned[1].text \in
                      {"null", "0", "7", "42", "-1", "true", "false", "[object Object]"}

=============================================================================
